---------------------------- MODULE Spec2Model ----------------------------
(***************************************************************************)
(* VisionGrade ML service: the prediction service (model registry, feature *)
(* builder, confidence, batch prediction, training entry point), the       *)
(* /predict endpoint with its error decorator, and the prediction store.   *)
(*                                                                         *)
(* Numbers.  Percentages that the feature builder averages are kept as     *)
(* integers in units of 1/MarkUnit percent, so that every mean the code    *)
(* takes (of 1, 2 or 3 values, and then of 3 filled values) is exact.      *)
(* Raw model outputs are in 1/1000 percent, predicted_marks in 1/100       *)
(* percent (round(x, 2)), confidence in 1/ConfUnit before rounding and in  *)
(* 1/100 after it.                                                         *)
(***************************************************************************)
EXTENDS Integers, Sequences, FiniteSets, TLC

VARIABLES
    disk,             \* model directory: filename -> artifact
    models,           \* PredictionService.models, a dict in insertion order
    model_version,    \* PredictionService.model_version
    feature_columns,  \* PredictionService.feature_columns
    arg,              \* the argument of the call in progress / last call
    ret,              \* what the last call returned (or that it raised), and
                      \* the raw value the regressor gave when it was asked
    response,         \* the last HTTP response of the Flask app
    services_up,      \* app.py: both module-level services were constructed
    rows,             \* table ml_predictions as the shared connection sees it
    committed,        \* table ml_predictions as last committed
    nextId,           \* the table's id sequence
    threads,          \* request threads inside save_prediction
    frame             \* locals of the error_handler wrapper call in progress

serviceVars == <<disk, models, model_version, feature_columns>>
dbVars == <<rows, committed, nextId, threads>>

vars == <<disk, models, model_version, feature_columns, arg, ret, response,
          services_up, rows, committed, nextId, threads, frame>>

-----------------------------------------------------------------------------
(* Bounds *)

MaxSubject == 2
MaxBatch == 2
MaxSaves == 3
NumThreads == 2
MaxRetries == 3
MaxGroups == 2

-----------------------------------------------------------------------------
(* Small helpers *)

Min(a, b) == IF a < b THEN a ELSE b
Max(a, b) == IF a > b THEN a ELSE b

RECURSIVE SumSeq(_)
SumSeq(s) == IF s = <<>> THEN 0 ELSE Head(s) + SumSeq(Tail(s))

\* Python's round() on a non-negative exact value n/d: nearest integer,
\* ties to even.
RoundHalfEven(n, d) ==
    LET q == n \div d
        r == n % d
    IN  IF 2 * r < d THEN q
        ELSE IF 2 * r > d THEN q + 1
        ELSE IF q % 2 = 0 THEN q ELSE q + 1

-----------------------------------------------------------------------------
(* Student records *)

Absent == 0 - 1        \* the key is not in the dict
NonNumeric == 0 - 2    \* a value that cannot be compared with 0 (None, a string)

Exams == <<"series_test_1", "series_test_2", "lab_internal">>
ExamSet == {Exams[i] : i \in 1..3}

MarkUnit == 2 * 3 * 3
ConfUnit == 18 * 1000

NoMarks == [e \in ExamSet |-> Absent]

MarksOf(a, b, c) ==
    [e \in ExamSet |-> IF e = "series_test_1" THEN a
                       ELSE IF e = "series_test_2" THEN b ELSE c]

Student(sid, subj, marks, stype, sem, att) ==
    [is_dict |-> TRUE, student_id |-> sid, subject_id |-> subj, marks |-> marks,
     subject_type |-> stype, semester |-> sem, attendance_percentage |-> att]

\* An item that is not a dict at all (None).
NotADict ==
    [is_dict |-> FALSE, student_id |-> Absent, subject_id |-> Absent,
     marks |-> NoMarks, subject_type |-> "theory", semester |-> Absent,
     attendance_percentage |-> Absent]

-----------------------------------------------------------------------------
(* Feature builder: PredictionService._prepare_prediction_features *)

DefaultFeatureColumns ==
    <<"series_test_1_percentage", "series_test_2_percentage",
      "lab_internal_percentage", "average_internal_percentage",
      "subject_type_encoded", "semester", "attendance_percentage">>

\* The six columns of the 1.x models (no attendance).
LegacyFeatureColumns == SubSeq(DefaultFeatureColumns, 1, 6)

\* dict.get(key, default)
Get(value, default) == IF value = Absent THEN default ELSE value

\* student_data.get(...) on a non-dict, or `m > 0` on a non-numeric mark, raises.
FeaturesRaise(student_data) ==
    \/ ~student_data.is_dict
    \/ \E e \in ExamSet : student_data.marks[e] = NonNumeric

\* np.mean of a non-empty list of values
Mean(s) == SumSeq(s) \div Len(s)

\* Fill missing values with average (lines 327-333)
FillNoFill(value, avg_internal) == value

Fill(value, avg_internal) ==
    IF value = 0 /\ avg_internal > 0 THEN avg_internal ELSE value

\* The first four features are in 1/MarkUnit percent, the others are plain.
PrepareFeatures(student_data, fc) ==
    LET marks == student_data.marks
        series_1 == Get(marks["series_test_1"], 0) * MarkUnit
        series_2 == Get(marks["series_test_2"], 0) * MarkUnit
        lab_internal == Get(marks["lab_internal"], 0) * MarkUnit
        three == <<series_1, series_2, lab_internal>>
        available_marks == SelectSeq(three, LAMBDA m : m > 0)
        avg_internal == IF available_marks # <<>> THEN Mean(available_marks) ELSE 0
        s1 == Fill(series_1, avg_internal)
        s2 == Fill(series_2, avg_internal)
        lab == Fill(lab_internal, avg_internal)
        avg == Mean(<<s1, s2, lab>>)
        base == <<s1, s2, lab, avg,
                  IF student_data.subject_type = "lab" THEN 1 ELSE 0,
                  Get(student_data.semester, 1)>>
    IN  IF \E i \in 1..Len(fc) : fc[i] = "attendance_percentage"
        THEN Append(base, Get(student_data.attendance_percentage, 80))
        ELSE base

-----------------------------------------------------------------------------
(* Confidence: PredictionService._calculate_confidence, in 1/ConfUnit *)

\* n^2 * np.var(s) for a sequence of n integers
VarNumerator(s) ==
    Len(s) * SumSeq([i \in 1..Len(s) |-> s[i] * s[i]]) - SumSeq(s) * SumSeq(s)

\* max(0.0, min(1.0, confidence))
ClampConfidence(confidence) == Max(0, Min(ConfUnit, confidence))

\* Fewer marks, more confidence.
CompletenessInverted(available_internals) ==
    (3 - available_internals) * (ConfUnit \div 10)

\* (available_internals / 3) * 0.3
Completeness(available_internals) == available_internals * (ConfUnit \div 10)

CalculateConfidence(student_data) ==
    LET marks == student_data.marks
        internal_marks ==
            SelectSeq([i \in 1..3 |-> Get(marks[Exams[i]], 0)], LAMBDA m : m > 0)
        n == Len(internal_marks)
        completeness == Completeness(n)
        \* max(0, (100 - variance) / 100) * 0.2
        consistency_bonus ==
            IF n >= 2
            THEN Max(0, (ConfUnit \div 5)
                        - (VarNumerator(internal_marks) * (36 \div (n * n))))
            ELSE 0
    IN  ClampConfidence((ConfUnit \div 2) + completeness + consistency_bonus)


-----------------------------------------------------------------------------
(* Model directory and registry *)

SubjectIds == 0..MaxSubject       \* 0 stands for a falsy subject_id (None, 0)

\* f"subject_{subject_id}"
SubjectName(subject_id) ==
    CASE subject_id = 1 -> "subject_1"
      [] subject_id = 2 -> "subject_2"
      [] subject_id = 3 -> "subject_3"
      [] OTHER -> "subject_4"

\* f"subject_{subject_id}" if subject_id else "general"
SubjectKey(subject_id) ==
    IF subject_id # 0 /\ subject_id # Absent THEN SubjectName(subject_id) ELSE "general"

\* key.startswith('production_')
IsProductionKey(key) ==
    key \in {"production_best", "production_rf", "production_xgb", "production_unknown"}

\* f"production_{model_package.get('model_name', 'unknown')}"
ProductionKey(model_name) ==
    CASE model_name = "rf" -> "production_rf"
      [] model_name = "xgb" -> "production_xgb"
      [] OTHER -> "production_unknown"

\* File names.  f"{key}_model_{version}.joblib" is [stem |-> key, version |-> version];
\* the two kinds of production file carry no version in their name.
ModelFile(key, version) == [stem |-> key, version |-> version]
BestFile == [stem |-> "best_production_model", version |-> "-"]
ProductionFile(name) == [stem |-> name, version |-> "-"]

\* What joblib.load gives for a file: a bare regressor, a package dict with a
\* 'model' key (and optional metadata), or an exception.
Bare(gen) ==
    [shape |-> "bare", gen |-> gen, model_name |-> "-", model_version |-> "-",
     feature_columns |-> <<>>]
Package(gen, name, version, fc) ==
    [shape |-> "package", gen |-> gen, model_name |-> name, model_version |-> version,
     feature_columns |-> fc]
Corrupt ==
    [shape |-> "corrupt", gen |-> 0, model_name |-> "-", model_version |-> "-",
     feature_columns |-> <<>>]

\* The object stored in self.models: a regressor, or a dict that was stored whole.
Regressor(gen) == [predicts |-> TRUE, gen |-> gen]
StoredDict(gen) == [predicts |-> FALSE, gen |-> gen]
ObjectOf(content) ==
    IF content.shape = "package" THEN StoredDict(content.gen) ELSE Regressor(content.gen)

HasKey(m, key) == \E i \in 1..Len(m) : m[i].key = key
Lookup(m, key) == (CHOOSE i \in 1..Len(m) : m[i].key = key)
ModelAt(m, key) == m[Lookup(m, key)].model
Keys(m) == {m[i].key : i \in 1..Len(m)}

\* self.models[key] = model: a dict keeps the position of an existing key
Put(m, key, model) ==
    IF HasKey(m, key)
    THEN [m EXCEPT ![Lookup(m, key)] = [key |-> key, model |-> model]]
    ELSE Append(m, [key |-> key, model |-> model])


NoFile ==
    [shape |-> "none", gen |-> 0, model_name |-> "-", model_version |-> "-",
     feature_columns |-> <<>>]

\* os.path.exists
Exists(d, file) == d[file].shape # "none"

Versions == {"2.0.0", "3.0.0"}
RegularKeys == <<"general", "subject_1", "subject_2", "subject_3", "subject_4">>
RegularKeySet == {"general"} \cup {SubjectName(i) : i \in 1..MaxSubject}
ProductionFiles == {ProductionFile("production_rf"), ProductionFile("production_xgb")}
RegularFiles == {ModelFile(k, v) : k \in RegularKeySet, v \in Versions}
AllFiles == {BestFile} \cup ProductionFiles \cup RegularFiles

\* State of a freshly constructed object before any file is read (lines 26-38).
Fresh ==
    [models |-> <<>>, model_version |-> "2.0.0",
     feature_columns |-> DefaultFeatureColumns]

\* A scan that registers every production_*.joblib package it can load.
LoadEveryProduction(d, st) ==
    LET rf == d[ProductionFile("production_rf")]
        xgb == d[ProductionFile("production_xgb")]
        first == IF rf.shape = "package"
                 THEN Put(st.models, ProductionKey(rf.model_name), Regressor(rf.gen))
                 ELSE st.models
    IN  {[st EXCEPT !.models =
              IF xgb.shape = "package"
              THEN Put(first, ProductionKey(xgb.model_name), Regressor(xgb.gen))
              ELSE first]}

\* _load_production_models, second half: the first production_*.joblib in
\* os.listdir order that loads as a package is registered and ends the scan;
\* the order is the file system's, so any loadable one can be the first.
LoadAnyProduction(d, st) ==
    LET loadable == {f \in ProductionFiles : d[f].shape = "package"}
    IN  IF loadable = {} THEN {st}
        ELSE {[st EXCEPT !.models =
                   Put(st.models, ProductionKey(d[f].model_name), Regressor(d[f].gen))]
              : f \in loadable}

\* _load_production_models: the set of states it can leave.
LoadProductionModels(d, st) ==
    LET best == d[BestFile]
    IN  IF best.shape = "package"
        THEN {[models |-> Put(st.models, "production_best", Regressor(best.gen)),
               model_version |->
                   IF best.model_version = "-" THEN "2.0.0" ELSE best.model_version,
               feature_columns |->
                   IF best.feature_columns # <<>> THEN best.feature_columns
                   ELSE st.feature_columns]}
        ELSE IF best.shape = "bare"
        THEN {[st EXCEPT !.models = Put(st.models, "production_best", Regressor(best.gen))]}
        ELSE LoadAnyProduction(d, st)

\* _load_models: every <key>_model_<version>.joblib of the current version that
\* loads is registered whole under <key>.  Only production_keys[0] ever reads the
\* registry's order, so the listdir order of these files is fixed here.
RECURSIVE LoadModelsFrom(_, _, _)
LoadModelsFrom(d, st, i) ==
    IF i > Len(RegularKeys) THEN st
    ELSE LET file == ModelFile(RegularKeys[i], st.model_version)
             loads == /\ RegularKeys[i] \in RegularKeySet
                      /\ Exists(d, file)
                      /\ d[file].shape # "corrupt"
         IN  LoadModelsFrom(d,
                 IF loads
                 THEN [st EXCEPT !.models = Put(st.models, RegularKeys[i], ObjectOf(d[file]))]
                 ELSE st,
                 i + 1)

LoadModels(d, st) == LoadModelsFrom(d, st, 1)

\* PredictionService.__init__
Construct(d) == {LoadModels(d, st) : st \in LoadProductionModels(d, Fresh)}


-----------------------------------------------------------------------------
(* PredictionService.predict_university_marks *)

NoModelFound == "No trained model found. Please train a model first."

\* A result dict.  Keys a dict does not have are "-", Absent or <<>>.
Failure(error) ==
    [success |-> FALSE, error |-> error, predicted_marks |-> Absent,
     confidence_score |-> Absent, input_features |-> <<>>, model_version |-> "-",
     model_used |-> "-", student_id |-> Absent, subject_id |-> Absent]

\* What the resolved regressor's predict() does: a raw value in 1/1000
\* percent, or an exception.
RawOutputs == {0 - 20000, 72456, 150000}
ModelOutputs ==
    {[raises |-> FALSE, value |-> v] : v \in RawOutputs}
        \cup {[raises |-> TRUE, value |-> 0]}

\* production_keys[0]
FirstProductionKey(m) ==
    m[CHOOSE i \in 1..Len(m) :
          /\ IsProductionKey(m[i].key)
          /\ \A j \in 1..(i - 1) : ~IsProductionKey(m[j].key)].key

\* Resolution that looks for the subject's model before the production models.
ResolveSubjectFirst(m, d, version, subject_id) ==
    IF HasKey(m, SubjectKey(subject_id))
    THEN [error |-> "-", model_key |-> SubjectKey(subject_id),
          model |-> ModelAt(m, SubjectKey(subject_id)), models |-> m]
    ELSE IF HasKey(m, "production_best")
    THEN [error |-> "-", model_key |-> "production_best",
          model |-> ModelAt(m, "production_best"), models |-> m]
    ELSE IF \E k \in Keys(m) : IsProductionKey(k)
    THEN [error |-> "-", model_key |-> FirstProductionKey(m),
          model |-> ModelAt(m, FirstProductionKey(m)), models |-> m]
    ELSE [error |-> NoModelFound, model_key |-> SubjectKey(subject_id),
          model |-> Regressor(0), models |-> m]

\* Resolution that enters the key in the registry before it knows a model exists.
ResolveCachesMiss(m, d, version, subject_id) ==
    IF \E k \in Keys(m) : IsProductionKey(k)
    THEN [error |-> "-", model_key |-> FirstProductionKey(m),
          model |-> ModelAt(m, FirstProductionKey(m)), models |-> m]
    ELSE IF HasKey(m, SubjectKey(subject_id))
    THEN [error |-> "-", model_key |-> SubjectKey(subject_id),
          model |-> ModelAt(m, SubjectKey(subject_id)), models |-> m]
    ELSE [error |-> NoModelFound, model_key |-> SubjectKey(subject_id),
          model |-> Regressor(0),
          models |-> Put(m, SubjectKey(subject_id), Regressor(0))]

\* Lines 242-271: the model that serves the request, the registry afterwards,
\* and the error when the resolution raised.
Resolve(m, d, version, subject_id) ==
    IF HasKey(m, "production_best")
    THEN [error |-> "-", model_key |-> "production_best",
          model |-> ModelAt(m, "production_best"), models |-> m]
    ELSE IF \E k \in Keys(m) : IsProductionKey(k)
    THEN [error |-> "-", model_key |-> FirstProductionKey(m),
          model |-> ModelAt(m, FirstProductionKey(m)), models |-> m]
    ELSE LET subject_key == SubjectKey(subject_id)
             file == ModelFile(subject_key, version)
         IN  IF HasKey(m, subject_key)
             THEN [error |-> "-", model_key |-> subject_key,
                   model |-> ModelAt(m, subject_key), models |-> m]
             ELSE IF file \in AllFiles /\ Exists(d, file)
             THEN IF d[file].shape = "corrupt"
                  THEN [error |-> "joblib.load failed", model_key |-> subject_key,
                        model |-> Regressor(0), models |-> m]
                  ELSE [error |-> "-", model_key |-> subject_key,
                        model |-> ObjectOf(d[file]),
                        models |-> Put(m, subject_key, ObjectOf(d[file]))]
             ELSE [error |-> NoModelFound, model_key |-> subject_key,
                   model |-> Regressor(0), models |-> m]

\* Only the upper end is clamped.
ClampPredictionUpperOnly(prediction) == Min(100 * 1000, prediction)

\* max(0, min(100, prediction)), in 1/1000 percent
ClampPrediction(prediction) == Max(0, Min(100 * 1000, prediction))

\* dict(zip(self.feature_columns, features))
Zip(fc, features) ==
    [i \in 1..Min(Len(fc), Len(features)) |-> [name |-> fc[i], value |-> features[i]]]

\* Lines 273-297, with the model already resolved: the dict returned.
PredictWithModel(model, model_key, version, fc, student_data, out) ==
    IF FeaturesRaise(student_data)
    THEN Failure("feature preparation raised")
    ELSE IF ~model.predicts \/ out.raises
    THEN Failure("model.predict raised")
    ELSE [success |-> TRUE, error |-> "-",
          predicted_marks |-> RoundHalfEven(ClampPrediction(out.value), 10),
          confidence_score |->
              RoundHalfEven(CalculateConfidence(student_data), ConfUnit \div 100),
          input_features |-> Zip(fc, PrepareFeatures(student_data, fc)),
          model_version |-> version,
          model_used |-> model_key,
          student_id |-> Absent, subject_id |-> Absent]

\* The whole call: [result |-> the dict returned, models |-> the registry after].
\* Every exception inside the body is caught at line 298.
PredictUniversityMarks(m, d, version, fc, student_data, subject_id, out) ==
    LET r == Resolve(m, d, version, subject_id)
    IN  IF r.error # "-"
        THEN [result |-> Failure(r.error), models |-> r.models]
        ELSE [result |-> PredictWithModel(r.model, r.model_key, version, fc,
                                          student_data, out),
              models |-> r.models]


-----------------------------------------------------------------------------
(* PredictionService.train_model *)

\* marks_data as the training code sees it: how many (student, subject) groups
\* qualify for a training row, and whether fitting a candidate raises.
Corpora ==
    {[qualifying |-> n, fit_raises |-> FALSE] : n \in {0, 9, 10}}
        \cup {[qualifying |-> 10, fit_raises |-> TRUE]}

\* The first `def train_model(self, marks_data, subject_id=None)`, lines 121-228.
\* [raised, result, models, disk] of a call in state (m, d, version).
TrainModelFirst(m, d, version, marks_data, subject_id) ==
    LET model_key == SubjectKey(subject_id)
        failed(error) ==
            [raised |-> FALSE, result |-> Failure(error), models |-> m, disk |-> d]
    IN  IF marks_data.qualifying = 0
        THEN failed("No valid training data found. Need students with university marks and internal assessments.")
        ELSE IF marks_data.qualifying < 10
        THEN failed("Insufficient training data: fewer than 10 records. Need at least 10 records.")
        ELSE IF marks_data.fit_raises
        THEN failed("model.fit raised")
        ELSE [raised |-> FALSE,
              result |-> [Failure("-") EXCEPT !.success = TRUE, !.model_version = version],
              models |-> Put(m, model_key, Regressor(1)),
              disk |-> [d EXCEPT ![ModelFile(model_key, version)] = Bare(1)]]

\* The second `def train_model(self, X, y)`, lines 560-591, has no try/except.
\* Called as train_model(marks_data, subject_id) it is handed a list of dicts as
\* X and the subject id as y: train_test_split or the fit raises for every such
\* argument, and nothing is registered or written.
TrainModelSecond(m, d, version, X, y) ==
    [raised |-> TRUE, result |-> Failure("raised"), models |-> m, disk |-> d]

\* A training call that registers its model and then fails.
TrainModelRegistersThenRaises(m, d, version, marks_data, subject_id) ==
    [raised |-> TRUE, result |-> Failure("raised"),
     models |-> Put(m, SubjectKey(subject_id), Regressor(1)), disk |-> d]

\* The class body binds the name train_model twice; the later binding (line 560)
\* replaces the earlier one, so this is what self.train_model is.
TrainModel(m, d, version, marks_data, subject_id) ==
    TrainModelSecond(m, d, version, marks_data, subject_id)

-----------------------------------------------------------------------------
(* Inputs of the service specification *)

Complete == Student(3, 1, MarksOf(80, 85, 82), "theory", 3, Absent)
TwoMarks == Student(1, 1, MarksOf(40, 45, Absent), "theory", 3, 95)
OneMark == Student(3, 1, MarksOf(75, Absent, Absent), "lab", 4, Absent)
Spread == Student(4, 2, MarksOf(20, 0, 100), "lab", Absent, 60)
IdOnly == Student(2, Absent, NoMarks, "-", Absent, Absent)
BadMarks == Student(5, 1, MarksOf(NonNumeric, 45, Absent), "theory", 3, Absent)

SampleStudents == {Complete, TwoMarks, OneMark, Spread, IdOnly, BadMarks, NotADict}

SubjectNames == {SubjectName(i) : i \in 1..MaxSubject}

\* The model directories a service is started on: any combination of the two
\* kinds of production file and a general model, and at most one subject's file.
Disks ==
    {[f \in AllFiles |->
        IF f = BestFile THEN best
        ELSE IF f = ProductionFile("production_rf") THEN rf
        ELSE IF f = ProductionFile("production_xgb") THEN xgb
        ELSE IF f = ModelFile("general", "2.0.0") THEN general
        ELSE IF f = ModelFile(subject[1], "2.0.0") THEN subject[2]
        ELSE NoFile]
     : best \in {NoFile, Package(0, "rf", "-", <<>>),
                 Package(0, "xgb", "3.0.0", LegacyFeatureColumns), Corrupt},
       rf \in {NoFile, Package(0, "rf", "-", <<>>)},
       xgb \in {NoFile, Package(0, "-", "-", <<>>)},
       general \in {NoFile, Bare(0)},
       subject \in {<<"subject_1", NoFile>>}
                       \cup (SubjectNames \X {Bare(0), Corrupt})}

\* The JSON body of POST /predictions/toggle/<subject_id>: is_visible (if
\* has_visible) and faculty_id (Absent: not given).
NoToggle ==
    [has_body |-> FALSE, has_visible |-> FALSE, is_visible |-> FALSE,
     faculty_id |-> Absent]

\* A request without a JSON body.
NoBody == [has_body |-> FALSE, student_id |-> Absent, subject_id |-> Absent]

NoArg ==
    [op |-> "none", items |-> <<>>, subject_id |-> Absent,
     models_before |-> <<>>, marks_data |-> [qualifying |-> 0, fit_raises |-> FALSE],
     data |-> NoBody, faults |-> <<>>, toggle |-> NoToggle]
NoRet == [op |-> "none", raised |-> FALSE, results |-> <<>>, raws |-> <<>>]
\* kind: "prediction" (the result dict of the predictor), "fallback" (the dict of
\* get_fallback_prediction, which has no success key), "error" (the body the
\* MLServiceError handler builds).
NoResponse ==
    [status |-> 0, kind |-> "none", body |-> Failure("-"), prediction_method |-> "-",
     error_code |-> "-", prediction_id |-> Absent, save_warning |-> FALSE,
     predictions |-> <<>>, updated_predictions |-> Absent]

\* The parts of the state a specification does not use.
DbIdle == rows = <<>> /\ committed = <<>> /\ nextId = 1 /\ threads = <<>>
NoFrame == [pc |-> "none"]
FrameIdle == frame = NoFrame
ServiceIdle ==
    /\ disk = [f \in AllFiles |-> NoFile]
    /\ models = <<>>
    /\ model_version = "2.0.0"
    /\ feature_columns = DefaultFeatureColumns

-----------------------------------------------------------------------------
(* Spec: one PredictionService object and the calls made on it *)

Init ==
    /\ disk \in Disks
    /\ \E st \in Construct(disk) :
           /\ models = st.models
           /\ model_version = st.model_version
           /\ feature_columns = st.feature_columns
    /\ arg = NoArg
    /\ ret = NoRet
    /\ response = NoResponse
    /\ services_up = TRUE
    /\ DbIdle
    /\ FrameIdle

Predict(student_data, subject_id, out) ==
    \E r \in {PredictUniversityMarks(models, disk, model_version, feature_columns,
                                     student_data, subject_id, out)} :
        /\ arg' = [NoArg EXCEPT !.op = "predict", !.items = <<student_data>>,
                                !.subject_id = subject_id,
                                !.models_before = models]
        /\ ret' = [op |-> "predict", raised |-> FALSE, results |-> <<r.result>>,
                   raws |-> <<IF r.result.success THEN out.value ELSE Absent>>]
        /\ models' = r.models
        /\ UNCHANGED <<disk, model_version, feature_columns, response, services_up>>
        /\ UNCHANGED dbVars
        /\ UNCHANGED frame

Train(marks_data, subject_id) ==
    \E r \in {TrainModel(models, disk, model_version, marks_data, subject_id)} :
        /\ arg' = [NoArg EXCEPT !.op = "train", !.subject_id = subject_id,
                                !.models_before = models, !.marks_data = marks_data]
        /\ ret' = [op |-> "train", raised |-> r.raised, results |-> <<r.result>>,
                   raws |-> <<>>]
        /\ models' = r.models
        /\ disk' = r.disk
        /\ UNCHANGED <<model_version, feature_columns, response, services_up>>
        /\ UNCHANGED dbVars
        /\ UNCHANGED frame

Next ==
    \/ \E s \in SampleStudents, subject_id \in SubjectIds, out \in ModelOutputs :
           Predict(s, subject_id, out)
    \/ \E c \in Corpora, subject_id \in SubjectIds : Train(c, subject_id)

Spec == Init /\ [][Next]_vars


-----------------------------------------------------------------------------
(* PredictionService.batch_predict, and SpecBatch: batches on one service *)

\* One turn of the loop at lines 489-502 for item i: [raised, results, models].
\* prediction['student_id'] = student_data.get('student_id') raises for an item
\* that is no dict; the handler at line 495 calls student_data.get again, and
\* that exception leaves batch_predict.
RECURSIVE BatchFrom(_, _, _, _, _, _, _, _, _)
BatchFrom(m, d, version, fc, students_data, subject_id, outs, i, results) ==
    IF i > Len(students_data)
    THEN [raised |-> FALSE, results |-> results, models |-> m]
    ELSE LET student_data == students_data[i]
             r == PredictUniversityMarks(m, d, version, fc, student_data,
                                         subject_id, outs[i])
         IN  IF ~student_data.is_dict
             THEN [raised |-> TRUE, results |-> <<>>, models |-> r.models]
             ELSE BatchFrom(r.models, d, version, fc, students_data, subject_id,
                            outs, i + 1,
                            Append(results,
                                   [r.result EXCEPT
                                        !.student_id = student_data.student_id,
                                        !.subject_id = student_data.subject_id]))

BatchPredict(m, d, version, fc, students_data, subject_id, outs) ==
    BatchFrom(m, d, version, fc, students_data, subject_id, outs, 1, <<>>)

BatchStudents == {Complete, IdOnly, NotADict}
BatchOutputs == {[raises |-> FALSE, value |-> 72456], [raises |-> TRUE, value |-> 0]}
BatchSubjectIds == {0, 1}

\* Model directories of the batch specification: empty, a general model, the
\* best production model, a model of subject 1.
BatchDisks ==
    {d \in Disks :
        /\ Cardinality({f \in AllFiles : Exists(d, f)}) <= 1
        /\ \A f \in AllFiles : d[f].shape \in {"none", "bare"}
                                  \/ (f = BestFile /\ d[f].model_version = "-")}

InitBatch ==
    /\ disk \in BatchDisks
    /\ \E st \in Construct(disk) :
           /\ models = st.models
           /\ model_version = st.model_version
           /\ feature_columns = st.feature_columns
    /\ arg = NoArg
    /\ ret = NoRet
    /\ response = NoResponse
    /\ services_up = TRUE
    /\ DbIdle
    /\ FrameIdle

Batch(students_data, subject_id, outs) ==
    \E r \in {BatchPredict(models, disk, model_version, feature_columns,
                           students_data, subject_id, outs)} :
        /\ arg' = [NoArg EXCEPT !.op = "batch", !.items = students_data,
                                !.subject_id = subject_id, !.models_before = models]
        /\ ret' = [op |-> "batch", raised |-> r.raised, results |-> r.results,
                   raws |-> <<>>]
        /\ models' = r.models
        /\ UNCHANGED <<disk, model_version, feature_columns, response, services_up>>
        /\ UNCHANGED dbVars
        /\ UNCHANGED frame

NextBatch ==
    \E n \in 0..MaxBatch :
        \E students_data \in [1..n -> BatchStudents], outs \in [1..n -> BatchOutputs],
           subject_id \in BatchSubjectIds :
            Batch(students_data, subject_id, outs)

SpecBatch == InitBatch /\ [][NextBatch]_vars

-----------------------------------------------------------------------------
(* DatabaseService.save_prediction on table ml_predictions *)

\* A row of ml_predictions (created_at is not modelled).
Row(id, student_id, subject_id, values) ==
    [id |-> id, student_id |-> student_id, subject_id |-> subject_id,
     predicted_marks |-> values.predicted_marks,
     confidence_score |-> values.confidence_score,
     input_features |-> values.input_features,
     model_version |-> values.model_version,
     is_visible_to_student |-> FALSE]

\* A check query that never finds the row.
SelectExistingNone(table, student_id, subject_id) == <<>>

\* check_query: SELECT id ... WHERE student_id = %s AND subject_id = %s
SelectExisting(table, student_id, subject_id) ==
    LET hits == SelectSeq(table, LAMBDA r : r.student_id = student_id
                                            /\ r.subject_id = subject_id)
    IN  [i \in 1..Len(hits) |-> hits[i].id]

\* update_query: every row of the pair takes the new values and keeps its id
\* and its visibility.
UpdateRows(table, student_id, subject_id, values) ==
    [i \in 1..Len(table) |->
        IF table[i].student_id = student_id /\ table[i].subject_id = subject_id
        THEN [table[i] EXCEPT !.predicted_marks = values.predicted_marks,
                              !.confidence_score = values.confidence_score,
                              !.input_features = values.input_features,
                              !.model_version = values.model_version]
        ELSE table[i]]

\* insert_query: a new row with the next id of the sequence, not visible.
InsertRow(table, id, student_id, subject_id, values) ==
    Append(table, Row(id, student_id, subject_id, values))

\* The write that follows the check: UPDATE ... RETURNING id when the check found
\* a row, INSERT ... RETURNING id otherwise; result[0]['id'] raises IndexError
\* when the UPDATE matched nothing.  [raised, id, rows, nextId]
WritePrediction(table, next, existing, student_id, subject_id, values) ==
    IF existing # <<>>
    THEN LET returned == SelectExisting(table, student_id, subject_id)
         IN  [raised |-> returned = <<>>,
              id |-> IF returned = <<>> THEN Absent ELSE returned[1],
              rows |-> UpdateRows(table, student_id, subject_id, values),
              nextId |-> next]
    ELSE [raised |-> FALSE, id |-> next,
          rows |-> InsertRow(table, next, student_id, subject_id, values),
          nextId |-> next + 1]

\* The whole call on a connection nobody else uses meanwhile.  execute_query
\* never commits; a query that fails rolls the connection's transaction back
\* (lines 64-67) and the exception leaves save_prediction.
\* fault: "none", or the query that fails ("check", "write").
SavePrediction(table, saved, next, student_id, subject_id, values, fault) ==
    IF fault # "none"
    THEN [raised |-> TRUE, id |-> Absent, rows |-> saved, nextId |-> next]
    ELSE WritePrediction(table, next, SelectExisting(table, student_id, subject_id),
                         student_id, subject_id, values)

SaveValues ==
    {[predicted_marks |-> 7246, confidence_score |-> 99,
      input_features |-> "features-a", model_version |-> "2.0.0"],
     [predicted_marks |-> 10000, confidence_score |-> 60,
      input_features |-> "features-b", model_version |-> "3.0.0"]}
SavePairs == {<<1, 1>>, <<2, 1>>}
Faults == {"none", "check", "write"}

-----------------------------------------------------------------------------
(* SpecSave: save_prediction calls one after another on one connection;    *)
(* arg is the log of the calls made.                                       *)

InitSave ==
    /\ ServiceIdle
    /\ arg = <<>>
    /\ ret = NoRet
    /\ response = NoResponse
    /\ services_up = TRUE
    /\ DbIdle
    /\ FrameIdle

Save(student_id, subject_id, values, fault) ==
    LET r == SavePrediction(rows, committed, nextId, student_id, subject_id,
                            values, fault)
    IN  /\ Len(arg) < MaxSaves
        /\ arg' = Append(arg, [student_id |-> student_id, subject_id |-> subject_id,
                               values |-> values, raised |-> r.raised, id |-> r.id])
        /\ rows' = r.rows
        /\ nextId' = r.nextId
        /\ UNCHANGED <<ret, response, services_up, committed, threads>>
        /\ UNCHANGED serviceVars
        /\ UNCHANGED frame

NextSave ==
    \E p \in SavePairs, values \in SaveValues, fault \in Faults :
        Save(p[1], p[2], values, fault)

SpecSave == InitSave /\ [][NextSave]_vars

-----------------------------------------------------------------------------
(* SpecDb: request threads of the Flask app inside save_prediction, sharing *)
(* the one DatabaseService connection; each query is one step.              *)

Threads == 1..NumThreads

IdleThread ==
    [pc |-> "idle", student_id |-> Absent, subject_id |-> Absent,
     values |-> CHOOSE v \in SaveValues : TRUE, existing |-> <<>>]

InitDb ==
    /\ ServiceIdle
    /\ arg = 0                       \* save_prediction calls started
    /\ ret = NoRet
    /\ response = NoResponse
    /\ services_up = TRUE
    /\ rows = <<>>
    /\ committed = <<>>
    /\ nextId = 1
    /\ threads = [t \in Threads |-> IdleThread]
    /\ FrameIdle

\* existing = self.execute_query(check_query, ...)
Check(t, student_id, subject_id, values) ==
    /\ threads[t].pc = "idle"
    /\ arg < MaxSaves
    /\ arg' = arg + 1
    /\ threads' = [threads EXCEPT ![t] =
                      [pc |-> "checked", student_id |-> student_id,
                       subject_id |-> subject_id, values |-> values,
                       existing |-> SelectExisting(rows, student_id, subject_id)]]
    /\ UNCHANGED <<ret, response, services_up, rows, committed, nextId>>
    /\ UNCHANGED serviceVars
    /\ UNCHANGED frame

\* result = self.execute_query(update_query | insert_query, ...); return
Write(t) ==
    LET me == threads[t]
        r == WritePrediction(rows, nextId, me.existing, me.student_id,
                             me.subject_id, me.values)
    IN  /\ me.pc = "checked"
        /\ rows' = r.rows
        /\ nextId' = r.nextId
        /\ threads' = [threads EXCEPT ![t] = IdleThread]
        /\ UNCHANGED <<arg, ret, response, services_up, committed>>
        /\ UNCHANGED serviceVars
        /\ UNCHANGED frame

\* The thread's second query fails: execute_query rolls the shared
\* connection's transaction back and the exception leaves save_prediction.
WriteFails(t) ==
    /\ threads[t].pc = "checked"
    /\ rows' = committed
    /\ threads' = [threads EXCEPT ![t] = IdleThread]
    /\ UNCHANGED <<arg, ret, response, services_up, committed, nextId>>
    /\ UNCHANGED serviceVars
    /\ UNCHANGED frame

NextDb ==
    \E t \in Threads :
        \/ \E p \in SavePairs, values \in SaveValues : Check(t, p[1], p[2], values)
        \/ Write(t)
        \/ WriteFails(t)

SpecDb == InitDb /\ [][NextDb]_vars

-----------------------------------------------------------------------------
(* utils/error_handler.py: get_fallback_prediction, handle_prediction_errors *)

\* kwargs['student_data'] of get_fallback_prediction: raw internal marks out of
\* 50 under the keys series_test_1_marks, series_test_2_marks, lab_internal_marks.
FallbackData(a, b, c) == [given |-> TRUE, marks |-> <<a, b, c>>]
\* kwargs without student_data, or with an empty one.
NoFallbackData == [given |-> FALSE, marks |-> <<Absent, Absent, Absent>>]

\* The average without the scaling to a 0-100 basis.
FallbackTenthsUnscaled(total, n) ==
    IF total < 35 * n THEN 350
    ELSE IF total > 85 * n THEN 850
    ELSE RoundHalfEven(10 * total, n)

\* round(min(max(sum / len / 50 * 100, 35), 85), 1), in tenths of a percent
FallbackTenths(total, n) ==
    IF 2 * total < 35 * n THEN 350
    ELSE IF 2 * total > 85 * n THEN 850
    ELSE RoundHalfEven(20 * total, n)

\* predicted_marks in 1/100 percent, confidence in 1/100; warning: the dict has
\* a warning.
GetFallbackPrediction(student_data) ==
    LET got == [i \in 1..3 |-> Get(student_data.marks[i], 0)]
        available_marks == SelectSeq(got, LAMBDA mark : mark > 0)
        n == Len(available_marks)
    IN  IF student_data.given /\ \E i \in 1..3 : student_data.marks[i] = NonNumeric
        THEN [predicted_marks |-> 6000, confidence_score |-> 20,
              prediction_method |-> "emergency_fallback", warning |-> TRUE]
        ELSE IF student_data.given /\ n > 0
        THEN [predicted_marks |-> 10 * FallbackTenths(SumSeq(available_marks), n),
              confidence_score |-> 50,
              prediction_method |-> "fallback", warning |-> TRUE]
        ELSE [predicted_marks |-> 6500, confidence_score |-> 30,
              prediction_method |-> "fallback", warning |-> TRUE]

\* What a wrapped function did: returned a response, or raised an MLServiceError
\* of the given class and error_code.
Returned(resp) == [raises |-> "-", error_code |-> "-", response |-> resp]
Raised(class, error_code) ==
    [raises |-> class, error_code |-> error_code, response |-> NoResponse]

\* The wrapper of handle_prediction_errors around a function called with
\* keyword argument student_data (NoFallbackData when there is none, as for a
\* view function, which Flask calls without arguments): PredictionError and
\* ModelError pass, every other exception is answered with the dict of
\* get_fallback_prediction(*args, **kwargs).
HandlePredictionErrors(outcome, student_data) ==
    IF outcome.raises \in {"-", "PredictionError", "ModelError"}
    THEN outcome
    ELSE LET fb == GetFallbackPrediction(student_data)
         IN  Returned([NoResponse EXCEPT
                          !.kind = "fallback",
                          !.body = [Failure("-") EXCEPT
                                       !.predicted_marks = fb.predicted_marks,
                                       !.confidence_score = fb.confidence_score],
                          !.prediction_method = fb.prediction_method])

\* What Flask makes of the view's outcome: a returned dict becomes a 200 JSON
\* response, an MLServiceError goes to app.errorhandler(MLServiceError).
HandleMLServiceError(outcome) ==
    IF outcome.raises = "-"
    THEN IF outcome.response.status = 0
         THEN [outcome.response EXCEPT !.status = 200]
         ELSE outcome.response
    ELSE [NoResponse EXCEPT
             !.status = IF outcome.error_code \in {"DATA_ERROR", "VALIDATION_ERROR"}
                        THEN 400 ELSE 500,
             !.kind = "error",
             !.body = Failure(outcome.error_code),
             !.error_code = outcome.error_code]

-----------------------------------------------------------------------------
(* app.py: POST /predict *)

\* request.get_json(): no body, or the two ids (Absent: key missing or null,
\* NonNumeric: a value int() rejects, 0: falsy).
Bodies ==
    {NoBody} \cup
    [has_body : {TRUE}, student_id : {Absent, NonNumeric, 0, 1},
     subject_id : {Absent, NonNumeric} \cup SubjectIds]

\* database_service.get_student_marks_for_prediction: the query fails, finds no
\* marks row (None), or gives the student's record.
LookupFails == [raises |-> TRUE, found |-> FALSE, marks |-> NoMarks]
LookupNone == [raises |-> FALSE, found |-> FALSE, marks |-> NoMarks]
Lookups ==
    {LookupFails, LookupNone} \cup
    [raises : {FALSE}, found : {TRUE},
     marks : {MarksOf(40, 45, Absent), MarksOf(80, 85, 82), MarksOf(0, Absent, Absent)}]

\* A save failure fails the request.
AnnotateFailsOnSaveError(result, s) ==
    IF s.raised THEN [NoResponse EXCEPT !.status = 500, !.kind = "error"]
    ELSE [NoResponse EXCEPT !.status = 200, !.kind = "prediction", !.body = result,
                            !.prediction_id = s.id]

\* Lines 196-214 for a successful prediction: the result with prediction_id, or
\* with save_warning when save_prediction raised, and status 200.
Annotate(result, s) ==
    [NoResponse EXCEPT !.status = 200, !.kind = "prediction", !.body = result,
                       !.prediction_id = s.id, !.save_warning = s.raised]

\* The body of predict_marks.
\* [outcome, student_data, predicted, models, rows, nextId]
PredictMarksView(m, d, version, fc, table, saved, next, up, data, lookup, out, fault) ==
    LET same(o) == [outcome |-> o, student_data |-> <<>>, predicted |-> <<>>,
                    models |-> m, rows |-> table, nextId |-> next]
        student_data == Student(data.student_id, data.subject_id, lookup.marks,
                                "theory", 3, Absent)
        p == PredictUniversityMarks(m, d, version, fc, student_data,
                                    data.subject_id, out)
        s == SavePrediction(table, saved, next, data.student_id, data.subject_id,
                            [predicted_marks |-> p.result.predicted_marks,
                             confidence_score |-> p.result.confidence_score,
                             input_features |-> p.result.input_features,
                             model_version |-> p.result.model_version],
                            fault)
    IN  IF ~up THEN same(Raised("MLServiceError", "SERVICE_UNAVAILABLE"))
        ELSE IF ~data.has_body THEN same(Raised("DataError", "DATA_ERROR"))
        ELSE IF data.student_id \in {Absent, 0} \/ data.subject_id \in {Absent, 0}
        THEN same(Raised("DataError", "DATA_ERROR"))
        ELSE IF NonNumeric \in {data.student_id, data.subject_id}
        THEN same(Raised("DataError", "DATA_ERROR"))
        ELSE IF lookup.raises
        THEN [same(Raised("DatabaseError", "DATABASE_ERROR")) EXCEPT !.rows = saved]
        ELSE IF ~lookup.found THEN same(Raised("DataError", "DATA_ERROR"))
        ELSE IF ~p.result.success
        THEN [outcome |-> Returned([NoResponse EXCEPT !.status = 400,
                                                      !.kind = "prediction",
                                                      !.body = p.result]),
              student_data |-> <<student_data>>, predicted |-> <<p.result>>,
              models |-> p.models, rows |-> table, nextId |-> next]
        ELSE [outcome |-> Returned(Annotate(p.result, s)),
              student_data |-> <<student_data>>, predicted |-> <<p.result>>,
              models |-> p.models, rows |-> s.rows, nextId |-> s.nextId]

-----------------------------------------------------------------------------
(* SpecApi: the Flask app answering POST /predict, one request at a time *)

InitApi ==
    /\ disk \in BatchDisks
    /\ services_up \in BOOLEAN
    /\ \E st \in (IF services_up THEN Construct(disk) ELSE {Fresh}) :
           /\ models = st.models
           /\ model_version = st.model_version
           /\ feature_columns = st.feature_columns
    /\ arg = NoArg
    /\ ret = NoRet
    /\ response = NoResponse
    /\ DbIdle
    /\ FrameIdle

PredictMarks(data, lookup, out, fault) ==
    \E v \in {PredictMarksView(models, disk, model_version, feature_columns, rows,
                               committed, nextId, services_up, data, lookup, out, fault)} :
        /\ nextId <= MaxSaves
        /\ arg' = [NoArg EXCEPT !.op = "predict_marks", !.items = v.student_data,
                                !.subject_id = data.subject_id,
                                !.models_before = models, !.data = data,
                                !.faults = <<fault>>]
        /\ ret' = [op |-> "predict", raised |-> FALSE, results |-> v.predicted,
                   raws |-> <<>>]
        /\ response' = HandleMLServiceError(
                           HandlePredictionErrors(v.outcome, NoFallbackData))
        /\ models' = v.models
        /\ rows' = v.rows
        /\ nextId' = v.nextId
        /\ UNCHANGED <<disk, model_version, feature_columns, services_up,
                       committed, threads>>
        /\ UNCHANGED frame

\* database_service.get_students_for_prediction: the enrolled students that
\* have marks, student i with the i-th marks.
EnrolledMarks == {MarksOf(40, 45, Absent), MarksOf(80, 85, 82)}
Enrolled(subject_id, marks) ==
    [i \in 1..Len(marks) |-> Student(i, subject_id, marks[i], "theory", 3, Absent)]

\* The loop of lines 266-283 from prediction i on: every successful prediction
\* is saved; a save that raises leaves save_error on that prediction.
\* [predictions, rows, nextId]
RECURSIVE SaveBatchFrom(_, _, _, _, _, _, _)
SaveBatchFrom(predictions, faults, i, table, saved, next, done) ==
    IF i > Len(predictions)
    THEN [predictions |-> done, rows |-> table, nextId |-> next]
    ELSE LET prediction == predictions[i]
             s == SavePrediction(table, saved, next, prediction.student_id,
                                 prediction.subject_id,
                                 [predicted_marks |-> prediction.predicted_marks,
                                  confidence_score |-> prediction.confidence_score,
                                  input_features |-> prediction.input_features,
                                  model_version |-> prediction.model_version],
                                 faults[i])
         IN  IF prediction.success
             THEN SaveBatchFrom(predictions, faults, i + 1, s.rows, saved, s.nextId,
                                Append(done, [result |-> prediction,
                                              prediction_id |-> s.id,
                                              save_error |-> s.raised]))
             ELSE SaveBatchFrom(predictions, faults, i + 1, table, saved, next,
                                Append(done, [result |-> prediction,
                                              prediction_id |-> Absent,
                                              save_error |-> FALSE]))

BatchError(status, error) ==
    [NoResponse EXCEPT !.status = status, !.kind = "error", !.body = Failure(error)]

\* The body of batch_predict in app.py.
\* [response, predicted, models, rows, nextId]
BatchPredictView(m, d, version, fc, table, saved, next, up, subject_id, lookup_raises, marks, outs, faults) ==
    LET same(r) == [response |-> r, predicted |-> <<>>, models |-> m,
                    rows |-> table, nextId |-> next]
        students_data == Enrolled(subject_id, marks)
        b == BatchPredict(m, d, version, fc, students_data, subject_id, outs)
        sv == SaveBatchFrom(b.results, faults, 1, table, saved, next, <<>>)
    IN  IF ~up THEN same(BatchError(503, "Services not available"))
        ELSE IF subject_id \in {Absent, 0}
        THEN same(BatchError(400, "subject_id is required"))
        ELSE IF lookup_raises
        THEN [same(BatchError(500, "query failed")) EXCEPT !.rows = saved]
        ELSE IF marks = <<>>
        THEN same(BatchError(404, "No students found for the subject"))
        ELSE IF b.raised
        THEN [same(BatchError(500, "batch_predict raised")) EXCEPT !.models = b.models]
        ELSE [response |-> [NoResponse EXCEPT !.status = 200, !.kind = "batch",
                                              !.predictions = sv.predictions],
              predicted |-> b.results, models |-> b.models,
              rows |-> sv.rows, nextId |-> sv.nextId]

PredictBatch(subject_id, lookup_raises, marks, outs, faults) ==
    \E v \in {BatchPredictView(models, disk, model_version, feature_columns, rows,
                               committed, nextId, services_up, subject_id,
                               lookup_raises, marks, outs, faults)} :
        /\ nextId <= MaxSaves
        /\ arg' = [NoArg EXCEPT !.op = "batch_predict",
                                !.items = Enrolled(subject_id, marks),
                                !.subject_id = subject_id,
                                !.models_before = models, !.faults = faults]
        /\ ret' = [op |-> "batch", raised |-> FALSE, results |-> v.predicted,
                   raws |-> <<>>]
        /\ response' = v.response
        /\ models' = v.models
        /\ rows' = v.rows
        /\ nextId' = v.nextId
        /\ UNCHANGED <<disk, model_version, feature_columns, services_up,
                       committed, threads>>
        /\ UNCHANGED frame

NextApi ==
    \E data \in Bodies, lookup \in Lookups, out \in BatchOutputs, fault \in Faults :
        PredictMarks(data, lookup, out, fault)

SpecApi == InitApi /\ [][NextApi]_vars

-----------------------------------------------------------------------------
(* SpecPersist: one request to POST /predict or POST /predict/batch, with   *)
(* a production model loaded and save_prediction failing or not.            *)

BatchFaults == {"none", "write"}

\* The table before the request: empty, or a committed row for student 1.
StoredTables ==
    {<<>>} \cup {<<Row(1, 1, 1, values)>> : values \in SaveValues}

PersistDisks ==
    {[f \in AllFiles |-> IF f = BestFile THEN best ELSE NoFile]
     : best \in {Bare(0), Package(0, "rf", "-", LegacyFeatureColumns)}}

InitPersist ==
    /\ disk \in PersistDisks
    /\ services_up = TRUE
    /\ \E st \in Construct(disk) :
           /\ models = st.models
           /\ model_version = st.model_version
           /\ feature_columns = st.feature_columns
    /\ arg = NoArg
    /\ ret = NoRet
    /\ response = NoResponse
    /\ rows \in StoredTables
    /\ committed = rows
    /\ nextId = Len(rows) + 1
    /\ threads = <<>>
    /\ FrameIdle

\* The single request of the specification.
PersistPredict(data, lookup, out, fault) ==
    /\ arg.op = "none"
    /\ PredictMarks(data, lookup, out, fault)

PersistBatch(lookup_raises, marks, outs, faults) ==
    /\ arg.op = "none"
    /\ PredictBatch(1, lookup_raises, marks, outs, faults)

NextPersist ==
    \/ \E data \in [has_body : {TRUE}, student_id : {1, 2}, subject_id : {1}],
          lookup \in Lookups, out \in BatchOutputs, fault \in Faults :
           PersistPredict(data, lookup, out, fault)
    \/ \E n \in 0..MaxBatch, lookup_raises \in BOOLEAN :
           \E marks \in [1..n -> EnrolledMarks], outs \in [1..n -> BatchOutputs],
              faults \in [1..n -> BatchFaults] :
               PersistBatch(lookup_raises, marks, outs, faults)

SpecPersist == InitPersist /\ [][NextPersist]_vars

-----------------------------------------------------------------------------
(* SpecToggle: POST /predictions/toggle/<subject_id> requests, one at a time *)

\* Table faculty_subjects for the current academic year, as pairs
\* <<faculty_id, subject_id>>; the service only reads it.
FacultySubjects == {<<1, 1>>}

\* auth_query: SELECT COUNT(*) ... WHERE faculty_id = %s AND subject_id = %s
AuthCount(faculty_id, subject_id) ==
    Cardinality({fs \in FacultySubjects : fs[1] = faculty_id /\ fs[2] = subject_id})

\* if faculty_id:
AuthRequired(faculty_id) == faculty_id \notin {Absent, 0}

\* UPDATE ml_predictions SET is_visible_to_student = %s WHERE subject_id = %s
SetVisibility(table, subject_id, is_visible) ==
    [i \in 1..Len(table) |->
        IF table[i].subject_id = subject_id
        THEN [table[i] EXCEPT !.is_visible_to_student = is_visible]
        ELSE table[i]]

\* DatabaseService.toggle_prediction_visibility.  execute_update commits.
\* [raised, count, rows, committed]; raised: "-", "ValueError" or "Exception".
ToggleVisibility(table, saved, subject_id, is_visible, faculty_id, fault) ==
    LET failed == [raised |-> "Exception", count |-> Absent, rows |-> saved,
                   committed |-> saved]
        updated == SetVisibility(table, subject_id, is_visible)
    IN  IF AuthRequired(faculty_id) /\ fault = "check" THEN failed
        ELSE IF AuthRequired(faculty_id) /\ AuthCount(faculty_id, subject_id) = 0
        THEN [raised |-> "ValueError", count |-> Absent, rows |-> table,
              committed |-> saved]
        ELSE IF fault = "write" THEN failed
        ELSE [raised |-> "-",
              count |-> Len(SelectSeq(table, LAMBDA r : r.subject_id = subject_id)),
              rows |-> updated, committed |-> updated]

ToggleRequests ==
    {NoToggle} \cup
    [has_body : {TRUE}, has_visible : BOOLEAN, is_visible : BOOLEAN,
     faculty_id : {Absent, 0, 1, 2}]

\* Predictions stored and committed before the requests: none, or one for each
\* of three (student, subject) pairs, hidden from students.
ToggleTables ==
    {<<>>} \cup
    {<<Row(1, 1, 1, values), Row(2, 2, 1, values), Row(3, 1, 2, values)>>
     : values \in SaveValues}

InitToggle ==
    /\ ServiceIdle
    /\ arg = NoArg
    /\ ret = NoRet
    /\ response = NoResponse
    /\ services_up \in BOOLEAN
    /\ rows \in ToggleTables
    /\ committed = rows
    /\ nextId = Len(rows) + 1
    /\ threads = <<>>
    /\ FrameIdle

\* The view function toggle_prediction_visibility of app.py.
TogglePredictionVisibility(subject_id, data, fault) ==
    \E t \in {ToggleVisibility(rows, committed, subject_id, data.is_visible,
                               data.faculty_id, fault)} :
        LET answer(status, kind) ==
                [NoResponse EXCEPT !.status = status, !.kind = kind]
            called == services_up /\ data.has_body /\ data.has_visible
        IN  /\ arg' = [NoArg EXCEPT !.op = "toggle", !.subject_id = subject_id,
                                    !.toggle = data, !.faults = <<fault>>]
            /\ response' =
                  IF ~services_up THEN answer(503, "error")
                  ELSE IF ~data.has_body \/ ~data.has_visible THEN answer(400, "error")
                  ELSE IF t.raised = "ValueError" THEN answer(403, "error")
                  ELSE IF t.raised = "Exception" THEN answer(500, "error")
                  ELSE [answer(200, "toggle") EXCEPT !.updated_predictions = t.count]
            /\ rows' = IF called THEN t.rows ELSE rows
            /\ committed' = IF called THEN t.committed ELSE committed
            /\ UNCHANGED <<ret, services_up, nextId, threads, frame>>
            /\ UNCHANGED serviceVars

NextToggle ==
    \E subject_id \in 1..MaxSubject, data \in ToggleRequests, fault \in Faults :
        TogglePredictionVisibility(subject_id, data, fault)

SpecToggle == InitToggle /\ [][NextToggle]_vars

-----------------------------------------------------------------------------
(* SpecFeatures: _prepare_prediction_features applied to a student record; *)
(* arg.items holds the record, ret.results the feature vector.             *)

MarkValues == {Absent, NonNumeric, 0, 40, 75, 100}

FeatureStudents ==
    {Student(1, 1, MarksOf(a, b, c), stype, sem, att) :
        a \in MarkValues, b \in MarkValues, c \in MarkValues,
        stype \in {"theory", "lab"}, sem \in {Absent, 4}, att \in {Absent, 95}}

\* feature_columns lists a best_production_model.joblib package can carry: the
\* seven columns of the export script, the six of a model without attendance,
\* the seven with attendance first, the four mark columns only.
AttendanceFirstColumns == <<DefaultFeatureColumns[7]>> \o LegacyFeatureColumns
MarkColumns == SubSeq(DefaultFeatureColumns, 1, 4)
ArtifactColumns ==
    {DefaultFeatureColumns, LegacyFeatureColumns, AttendanceFirstColumns, MarkColumns}

\* The model directory: empty, or a best production package with its columns.
ColumnDisks ==
    {[f \in AllFiles |-> NoFile]} \cup
    {[f \in AllFiles |-> IF f = BestFile THEN Package(0, "rf", "-", fc) ELSE NoFile]
     : fc \in ArtifactColumns}

InitFeatures ==
    /\ disk \in ColumnDisks
    /\ \E st \in Construct(disk) :
           /\ models = st.models
           /\ model_version = st.model_version
           /\ feature_columns = st.feature_columns
    /\ \E s \in FeatureStudents : arg = [NoArg EXCEPT !.items = <<s>>]
    /\ ret = NoRet
    /\ response = NoResponse
    /\ services_up = TRUE
    /\ DbIdle
    /\ FrameIdle

PreparePredictionFeatures ==
    /\ ret.op = "none"
    /\ ret' = [op |-> "prepare_features",
               raised |-> FeaturesRaise(arg.items[1]),
               results |-> IF FeaturesRaise(arg.items[1]) THEN <<>>
                           ELSE PrepareFeatures(arg.items[1], feature_columns),
               raws |-> <<>>]
    /\ UNCHANGED <<arg, response, services_up>>
    /\ UNCHANGED serviceVars
    /\ UNCHANGED dbVars
    /\ UNCHANGED frame

NextFeatures == PreparePredictionFeatures

SpecFeatures == InitFeatures /\ [][NextFeatures]_vars

-----------------------------------------------------------------------------
(* SpecConfidence: _calculate_confidence applied to two records that differ *)
(* in their internal marks only; arg.items holds the records, ret.results   *)
(* the two confidences in 1/ConfUnit.                                       *)

ConfidenceMarks == {Absent, 0, 40, 75, 80}

ConfidenceRecords ==
    {<<Student(1, 1, MarksOf(a, b, c), stype, 3, Absent),
       Student(1, 1, MarksOf(x, y, z), stype, 3, Absent)>> :
        a \in ConfidenceMarks, b \in ConfidenceMarks, c \in ConfidenceMarks,
        x \in ConfidenceMarks, y \in ConfidenceMarks, z \in ConfidenceMarks,
        stype \in {"theory", "lab"}}

InitConfidence ==
    /\ ServiceIdle
    /\ arg \in {[NoArg EXCEPT !.items = pair] : pair \in ConfidenceRecords}
    /\ ret = NoRet
    /\ response = NoResponse
    /\ services_up = TRUE
    /\ DbIdle
    /\ FrameIdle

CalculateBoth ==
    /\ ret.op = "none"
    /\ ret' = [op |-> "calculate_confidence", raised |-> FALSE,
               results |-> <<CalculateConfidence(arg.items[1]),
                             CalculateConfidence(arg.items[2])>>,
               raws |-> <<>>]
    /\ UNCHANGED <<arg, response, services_up>>
    /\ UNCHANGED serviceVars
    /\ UNCHANGED dbVars
    /\ UNCHANGED frame

NextConfidence == CalculateBoth

SpecConfidence == InitConfidence /\ [][NextConfidence]_vars

-----------------------------------------------------------------------------
(* SpecFallback: get_fallback_prediction called with keyword arguments;     *)
(* arg.items holds kwargs['student_data'], ret.results the dict returned.   *)

FallbackMarks == {Absent, NonNumeric, 0, 10, 40, 42, 45, 50}

FallbackInputs ==
    {NoFallbackData} \cup
    {FallbackData(a, b, c) : a \in FallbackMarks, b \in FallbackMarks,
                             c \in FallbackMarks}

InitFallback ==
    /\ ServiceIdle
    /\ arg \in {[NoArg EXCEPT !.items = <<d>>] : d \in FallbackInputs}
    /\ ret = NoRet
    /\ response = NoResponse
    /\ services_up = TRUE
    /\ DbIdle
    /\ FrameIdle

FallbackPrediction ==
    /\ ret.op = "none"
    /\ ret' = [op |-> "get_fallback_prediction", raised |-> FALSE,
               results |-> <<GetFallbackPrediction(arg.items[1])>>, raws |-> <<>>]
    /\ UNCHANGED <<arg, response, services_up>>
    /\ UNCHANGED serviceVars
    /\ UNCHANGED dbVars
    /\ UNCHANGED frame

NextFallback == FallbackPrediction

SpecFallback == InitFallback /\ [][NextFallback]_vars

-----------------------------------------------------------------------------
(* SpecRetry: one call of a function wrapped by retry_with_backoff, step by *)
(* step.  frame holds the wrapper's locals; frame.log lists what each       *)
(* invocation of the wrapped function did.                                  *)

\* What one invocation of a wrapped function does: it returns a value or raises
\* an exception with a message.  The function itself is taken to terminate.
FuncOutcomes ==
    {[raises |-> FALSE, value |-> "success"],
     [raises |-> TRUE, value |-> "Temporary failure"],
     [raises |-> TRUE, value |-> "Always fails"]}

\* max_retries as given by the caller; the default is 3.
RetryCounts == (0 - 1)..MaxRetries

RECURSIVE Power(_, _)
Power(b, e) == IF e = 0 THEN 1 ELSE b * Power(b, e - 1)

\* base_delay * (backoff_factor ** attempt) with the defaults 1.0 and 2.0
Delay(attempt) == Power(2, attempt)

\* The loop gives up one attempt too late.
ExhaustedLate(attempt, max_retries) == attempt = max_retries + 1

\* if attempt == max_retries: break
Exhausted(attempt, max_retries) == attempt = max_retries

\* raise MLServiceError(..., "RETRY_EXHAUSTED", {'last_error': str(last_exception)})
RaiseExhausted(f) ==
    [f EXCEPT !.pc = "raised", !.error_code = "RETRY_EXHAUSTED",
              !.last_error = f.last_exception]

\* wrapper(*args, **kwargs) entered: last_exception = None, and the loop starts
\* unless range(max_retries + 1) is empty.
EnterRetry(max_retries) ==
    LET f == [pc |-> "call", max_retries |-> max_retries, attempt |-> 0,
              log |-> <<>>, last_exception |-> "None", result |-> "-",
              error_code |-> "-", last_error |-> "-", delay |-> 0]
    IN  IF max_retries + 1 <= 0 THEN RaiseExhausted(f) ELSE f

InitRetry ==
    /\ ServiceIdle
    /\ arg = NoArg
    /\ ret = NoRet
    /\ response = NoResponse
    /\ services_up = TRUE
    /\ DbIdle
    /\ frame \in {EnterRetry(n) : n \in RetryCounts}

\* One pass through the try: the function is invoked; its result is returned,
\* or its exception is kept and the loop breaks or goes to sleep.
RetryInvoke(outcome) ==
    /\ frame.pc = "call"
    /\ frame' =
          LET f == [frame EXCEPT !.log = Append(@, outcome)]
          IN  IF ~outcome.raises
              THEN [f EXCEPT !.pc = "returned", !.result = outcome.value]
              ELSE IF Exhausted(frame.attempt, frame.max_retries)
              THEN RaiseExhausted([f EXCEPT !.last_exception = outcome.value])
              ELSE [f EXCEPT !.pc = "sleep", !.last_exception = outcome.value,
                             !.delay = Delay(frame.attempt)]
    /\ UNCHANGED <<arg, ret, response, services_up>>
    /\ UNCHANGED serviceVars
    /\ UNCHANGED dbVars

\* time.sleep(delay) returns and the for loop takes the next attempt.
RetryWake ==
    /\ frame.pc = "sleep"
    /\ frame' = [frame EXCEPT !.pc = "call", !.attempt = @ + 1]
    /\ UNCHANGED <<arg, ret, response, services_up>>
    /\ UNCHANGED serviceVars
    /\ UNCHANGED dbVars

NextRetry ==
    \/ \E outcome \in FuncOutcomes : RetryInvoke(outcome)
    \/ RetryWake

\* The wrapper is sequential code: a step that can be taken is taken.
SpecRetry == InitRetry /\ [][NextRetry]_vars /\ WF_vars(NextRetry)

-----------------------------------------------------------------------------
(* SpecDegrade: one call graceful_degradation(primary_func, fallback_func,  *)
(* *args), step by step.  frame.primary_log and frame.fallback_log list the *)
(* invocations of the two callables with the arguments they received.       *)

DegradeArgs == SampleStudents

PrimaryOutcomes ==
    FuncOutcomes \cup {[raises |-> FALSE, value |-> "primary_result"],
                       [raises |-> TRUE, value |-> "Primary failed"]}
FallbackOutcomes ==
    FuncOutcomes \cup {[raises |-> FALSE, value |-> "fallback_result"],
                       [raises |-> TRUE, value |-> "Fallback failed"]}

NoDetails == [primary_error |-> "-", fallback_error |-> "-"]

\* Details that name the fallback's failure only.
DegradeDetailsFallbackOnly(e, fallback_error) ==
    [primary_error |-> "-", fallback_error |-> fallback_error]

\* {'primary_error': str(e), 'fallback_error': str(fallback_error)}
DegradeDetails(e, fallback_error) ==
    [primary_error |-> e, fallback_error |-> fallback_error]

EnterDegradation(args) ==
    [pc |-> "attempt_primary", args |-> args, primary_log |-> <<>>,
     fallback_log |-> <<>>, e |-> "-", result |-> "-", raised |-> "-",
     details |-> NoDetails]

InitDegrade ==
    /\ ServiceIdle
    /\ arg = NoArg
    /\ ret = NoRet
    /\ response = NoResponse
    /\ services_up = TRUE
    /\ DbIdle
    /\ frame \in {EnterDegradation(args) : args \in DegradeArgs}

\* return primary_func(*args, **kwargs), or the except clause is entered
AttemptPrimary(outcome) ==
    /\ frame.pc = "attempt_primary"
    /\ frame' =
          LET f == [frame EXCEPT
                       !.primary_log = Append(@, [args |-> frame.args,
                                                  outcome |-> outcome])]
          IN  IF outcome.raises
              THEN [f EXCEPT !.pc = "attempt_fallback", !.e = outcome.value]
              ELSE [f EXCEPT !.pc = "done", !.result = outcome.value]
    /\ UNCHANGED <<arg, ret, response, services_up>>
    /\ UNCHANGED serviceVars
    /\ UNCHANGED dbVars

\* result = fallback_func(*args, **kwargs); return result, or raise
\* PredictionError("Both primary and fallback functions failed", {...})
AttemptFallback(outcome) ==
    /\ frame.pc = "attempt_fallback"
    /\ frame' =
          LET f == [frame EXCEPT
                       !.fallback_log = Append(@, [args |-> frame.args,
                                                   outcome |-> outcome])]
          IN  IF outcome.raises
              THEN [f EXCEPT !.pc = "fail_reported", !.raised = "PredictionError",
                             !.details = DegradeDetails(frame.e, outcome.value)]
              ELSE [f EXCEPT !.pc = "done_degraded", !.result = outcome.value]
    /\ UNCHANGED <<arg, ret, response, services_up>>
    /\ UNCHANGED serviceVars
    /\ UNCHANGED dbVars

NextDegrade ==
    \/ \E outcome \in PrimaryOutcomes : AttemptPrimary(outcome)
    \/ \E outcome \in FallbackOutcomes : AttemptFallback(outcome)

SpecDegrade == InitDegrade /\ [][NextDegrade]_vars /\ WF_vars(NextDegrade)

-----------------------------------------------------------------------------
(* SpecWrapped: a prediction function wrapped with handle_prediction_errors *)
(* and called with keyword argument student_data; arg.items holds the       *)
(* argument and what the wrapped function does, ret.results what the        *)
(* wrapper does.                                                            *)

\* The wrapped function returns a prediction or raises.
ModelPrediction ==
    [NoResponse EXCEPT !.kind = "prediction",
                       !.body = [Failure("-") EXCEPT !.success = TRUE,
                                                     !.predicted_marks = 7500,
                                                     !.confidence_score = 80]]
WrappedOutcomes ==
    {Returned(ModelPrediction),
     Raised("ValueError", "-"),
     Raised("ModelError", "MODEL_ERROR"),
     Raised("PredictionError", "PREDICTION_ERROR"),
     Raised("DataError", "DATA_ERROR")}

InitWrapped ==
    /\ ServiceIdle
    /\ arg \in {[NoArg EXCEPT !.items = <<[student_data |-> d, outcome |-> o]>>]
                : d \in FallbackInputs, o \in WrappedOutcomes}
    /\ ret = NoRet
    /\ response = NoResponse
    /\ services_up = TRUE
    /\ DbIdle
    /\ FrameIdle

WrappedCall ==
    /\ ret.op = "none"
    /\ ret' = [op |-> "wrapped", raised |-> FALSE,
               results |-> <<HandlePredictionErrors(arg.items[1].outcome,
                                                    arg.items[1].student_data)>>,
               raws |-> <<>>]
    /\ UNCHANGED <<arg, response, services_up, frame>>
    /\ UNCHANGED serviceVars
    /\ UNCHANGED dbVars

NextWrapped == WrappedCall

SpecWrapped == InitWrapped /\ [][NextWrapped]_vars

-----------------------------------------------------------------------------
(* Claims checked under Spec *)

LastResult == ret.results[1]
HasProduction(m) == \E k \in Keys(m) : IsProductionKey(k)

\* C1: production models have precedence.  Whenever production_best is
\* registered a prediction for any subject_id is served by production_best, also
\* when that subject's own model is registered; without production_best but with
\* some production_ key registered, that production model serves the request and
\* no subject or general model is looked for (the registry is left as it was and
\* the call never reports a missing model).
C1_ProductionPrecedence ==
    ret.op = "predict" =>
        LET before == arg.models_before
        IN  /\ HasKey(before, "production_best") /\ LastResult.success
                => LastResult.model_used = "production_best"
            /\ ~HasKey(before, "production_best") /\ HasProduction(before)
                   /\ LastResult.success
                => /\ IsProductionKey(LastResult.model_used)
                   /\ HasKey(before, LastResult.model_used)
            /\ HasProduction(before)
                => /\ LastResult.error # NoModelFound
                   /\ models = before

C1_Witness ==
    /\ ret.op = "predict"
    /\ arg.subject_id # 0
    /\ HasKey(arg.models_before, "production_best")
    /\ HasKey(arg.models_before, SubjectKey(arg.subject_id))
    /\ LastResult.success
    /\ LastResult.model_used = "production_best"

\* C2 (as claimed): with a subject_id given, no production model, no model of
\* that subject in memory or on disk, but 'general' registered, the request is
\* served by the general model and does not fail with "No trained model found".
C2_GeneralServesSubject ==
    ( /\ ret.op = "predict"
      /\ arg.subject_id # 0
      /\ ~HasProduction(arg.models_before)
      /\ ~HasKey(arg.models_before, SubjectKey(arg.subject_id))
      /\ ~Exists(disk, ModelFile(SubjectKey(arg.subject_id), model_version))
      /\ HasKey(arg.models_before, "general") )
        => /\ LastResult.error # NoModelFound
           /\ LastResult.success => LastResult.model_used = "general"

\* C3: every successful prediction reports predicted_marks in [0, 100] and
\* confidence_score in [0, 1] whatever the regressor returned: a raw value of 150
\* or more is reported as 100, a raw value of 0 or less as 0.
C3_ResultInRange ==
    ret.op = "predict" /\ LastResult.success =>
        /\ 0 <= LastResult.predicted_marks /\ LastResult.predicted_marks <= 100 * 100
        /\ 0 <= LastResult.confidence_score /\ LastResult.confidence_score <= 100
        /\ ret.raws[1] >= 100 * 1000 => LastResult.predicted_marks = 100 * 100
        /\ ret.raws[1] <= 0 => LastResult.predicted_marks = 0

C3_Witness ==
    /\ ret.op = "predict"
    /\ LastResult.success
    /\ ret.raws[1] = 0 - 20000
    /\ LastResult.predicted_marks = 0
    /\ arg.items[1] = Complete
    /\ LastResult.confidence_score = 99

\* No model applies to subject_id: no production model, no model under the
\* subject's key (or 'general' when no subject is given) in memory, no file for it.
NoApplicableModel(m, d, version, subject_id) ==
    /\ ~HasProduction(m)
    /\ ~HasKey(m, SubjectKey(subject_id))
    /\ ~Exists(d, ModelFile(SubjectKey(subject_id), version))

\* C5: a prediction asked for when no applicable model exists in memory or on
\* disk returns success = false with the error "No trained model found ...";
\* the call does not raise and leaves the registry without any new key.
C5_NoModelReported ==
    ( /\ ret.op = "predict"
      /\ NoApplicableModel(arg.models_before, disk, model_version, arg.subject_id) )
        => /\ ~ret.raised
           /\ ~LastResult.success
           /\ LastResult.error = NoModelFound
           /\ models = arg.models_before

C5_Witness ==
    /\ ret.op = "predict"
    /\ arg.models_before = <<>>
    /\ arg.items[1] = Complete
    /\ LastResult.error = NoModelFound

\* C7 (as claimed): a training call train_model(marks_data, subject_id) that
\* fails (no qualifying rows, fewer than 10, or a failing fit) returns
\* {success: false, error} and does not raise.
C7_TrainingFailureReturned ==
    ( /\ ret.op = "train"
      /\ (arg.marks_data.qualifying < 10 \/ arg.marks_data.fit_raises) )
        => /\ ~ret.raised
           /\ ~LastResult.success


-----------------------------------------------------------------------------
(* Claims checked under SpecBatch *)

\* The item lacks the subject_id or every mark, or is no dict at all.
CannotBePredicted(student_data) ==
    \/ ~student_data.is_dict
    \/ student_data.subject_id = Absent
    \/ \A e \in ExamSet : student_data.marks[e] = Absent

\* C6 (as claimed): batch_predict never raises and returns one result per input
\* item, in input order; an item that cannot be predicted (no subject_id, no
\* marks, or malformed) has success = false.
C6_BatchIsolatesItems ==
    ret.op = "batch" =>
        /\ ~ret.raised
        /\ Len(ret.results) = Len(arg.items)
        /\ \A i \in 1..Len(ret.results) :
              /\ ret.results[i].student_id = arg.items[i].student_id
              /\ CannotBePredicted(arg.items[i]) => ~ret.results[i].success


-----------------------------------------------------------------------------
(* Claims checked under SpecSave and SpecDb *)

RowsOf(table, student_id, subject_id) ==
    SelectSeq(table, LAMBDA r : r.student_id = student_id /\ r.subject_id = subject_id)

\* Calls i < j of the log were for the same pair, j is the last call for the
\* pair, and no call from i on failed (a failed query rolls the connection back).
TwoCallsSamePair(i, j) ==
    /\ i < j
    /\ arg[i].student_id = arg[j].student_id
    /\ arg[i].subject_id = arg[j].subject_id
    /\ \A k \in i..Len(arg) : ~arg[k].raised
    /\ \A k \in (j + 1)..Len(arg) :
          ~(arg[k].student_id = arg[j].student_id
              /\ arg[k].subject_id = arg[j].subject_id)

\* C8: save_prediction is an upsert keyed by (student_id, subject_id).  After two
\* sequential calls for the same pair the table holds exactly one row for the
\* pair, the row carries the predicted_marks, confidence_score, input_features
\* and model_version of the second call, and both calls returned that row's id.
C8_SaveIsUpsert ==
    \A i, j \in 1..Len(arg) :
        TwoCallsSamePair(i, j) =>
            LET found == RowsOf(rows, arg[j].student_id, arg[j].subject_id)
            IN  /\ Len(found) = 1
                /\ found[1].predicted_marks = arg[j].values.predicted_marks
                /\ found[1].confidence_score = arg[j].values.confidence_score
                /\ found[1].input_features = arg[j].values.input_features
                /\ found[1].model_version = arg[j].values.model_version
                /\ arg[i].id = found[1].id
                /\ arg[j].id = found[1].id

\* A row for another pair was inserted first, then the pair was saved twice
\* with different values.
C8_Witness ==
    /\ Len(arg) = 3
    /\ TwoCallsSamePair(2, 3)
    /\ arg[2].values # arg[3].values
    /\ Len(rows) = 2
    /\ arg[3].id = 2

\* C9 (as claimed): in every reachable state, whatever the interleaving of
\* concurrent save_prediction calls, the table holds at most one row per
\* (student_id, subject_id).
C9_OneRowPerPair ==
    \A i, j \in 1..Len(rows) :
        (rows[i].student_id = rows[j].student_id
            /\ rows[i].subject_id = rows[j].subject_id) => i = j


-----------------------------------------------------------------------------
(* Claims checked under SpecFeatures *)

\* The marks of the record that are present (greater than zero), in exam order.
PresentMarks(student_data) ==
    SelectSeq([i \in 1..3 |-> student_data.marks[Exams[i]]], LAMBDA m : m > 0)

\* The builder returned a vector for a record with at least one mark present.
BuiltWithMarkPresent ==
    /\ ret.op = "prepare_features"
    /\ ~ret.raised
    /\ PresentMarks(arg.items[1]) # <<>>

\* C10: for every student record with at least one internal mark present, the
\* feature builder replaces each missing (absent or zero) internal mark with the
\* mean of the present ones, keeps the present ones, and the average feature
\* equals the mean of the three values after filling.  Features are in
\* 1/MarkUnit percent: x equals the mean of s iff Len(s) * x = MarkUnit * sum(s).
C10_MissingFilledWithMean ==
    BuiltWithMarkPresent =>
        LET marks == arg.items[1].marks
            present == PresentMarks(arg.items[1])
            features == ret.results
        IN  /\ \A i \in 1..3 :
                  IF marks[Exams[i]] \in {Absent, 0}
                  THEN Len(present) * features[i] = MarkUnit * SumSeq(present)
                  ELSE features[i] = MarkUnit * marks[Exams[i]]
            /\ 3 * features[4] = features[1] + features[2] + features[3]

\* marks {series_test_1: 75} give 75 for the three internals and the average.
C10_Witness ==
    /\ BuiltWithMarkPresent
    /\ arg.items[1].marks = MarksOf(75, Absent, Absent)
    /\ SubSeq(ret.results, 1, 4)
         = <<75 * MarkUnit, 75 * MarkUnit, 75 * MarkUnit, 75 * MarkUnit>>


-----------------------------------------------------------------------------
(* Claims checked under SpecApi *)

\* The request was well-formed, the student's record was found, and the
\* service had no model registered and none on disk.
AnsweredWithoutModel ==
    /\ arg.op = "predict_marks"
    /\ services_up
    /\ Len(arg.items) = 1
    /\ arg.models_before = <<>>
    /\ \A f \in AllFiles : ~Exists(disk, f)

\* C4 (as claimed): with no model registered and none on disk a prediction
\* request degrades to the fallback tier: for marks {series_test_1: 40,
\* series_test_2: 45} the caller receives a result tagged prediction_method
\* 'fallback' with confidence 0.5 and predicted marks within [35, 85], and for a
\* record without any mark it receives 65.0 at confidence 0.3.
C4_NoModelDegradesToFallback ==
    AnsweredWithoutModel =>
        /\ arg.items[1].marks = MarksOf(40, 45, Absent) =>
              /\ response.prediction_method = "fallback"
              /\ response.body.confidence_score = 50
              /\ response.body.predicted_marks >= 3500
              /\ response.body.predicted_marks <= 8500
        /\ (\A e \in ExamSet : arg.items[1].marks[e] \in {Absent, 0}) =>
              /\ response.body.predicted_marks = 6500
              /\ response.body.confidence_score = 30


\* The value of the feature called name for a record: the builder computes the
\* seven features of lines 338-350, whose names are those of lines 30-38.
NamedFeature(student_data, name) ==
    LET all == PrepareFeatures(student_data, DefaultFeatureColumns)
    IN  {all[i] : i \in {j \in 1..7 : DefaultFeatureColumns[j] = name}}

\* C11 (as claimed): for every feature_columns list the service adopted from a
\* loaded artifact, the vector the builder returns has the length of
\* feature_columns and its i-th element is the value of the feature named
\* feature_columns[i].
C11_VectorMatchesColumns ==
    (ret.op = "prepare_features" /\ ~ret.raised /\ Exists(disk, BestFile)) =>
        /\ Len(ret.results) = Len(feature_columns)
        /\ \A i \in 1..Len(feature_columns) :
              NamedFeature(arg.items[1], feature_columns[i]) = {ret.results[i]}

-----------------------------------------------------------------------------
(* Claims checked under SpecConfidence *)

\* All three internal marks are present and their variance is below 100, the
\* variance at which the consistency bonus of line 382 reaches zero.
CompleteLowVariance(student_data) ==
    LET present == PresentMarks(student_data)
    IN  Len(present) = 3 /\ VarNumerator(present) < 100 * 9

\* C12: confidence grows with completeness.  Of two records that differ only in
\* their internal marks, one with all three marks present and low variance and
\* one with exactly one mark present, the first has a confidence at least that
\* of the second.
C12_ConfidenceGrowsWithCompleteness ==
    (ret.op = "calculate_confidence"
        /\ CompleteLowVariance(arg.items[1])
        /\ Len(PresentMarks(arg.items[2])) = 1) =>
        ret.results[1] >= ret.results[2]

C12_Witness ==
    /\ ret.op = "calculate_confidence"
    /\ arg.items[1].marks = MarksOf(75, 80, 75)
    /\ CompleteLowVariance(arg.items[1])
    /\ arg.items[2].marks = MarksOf(Absent, 80, 0)
    /\ ret.results[1] > ret.results[2]
    /\ ret.results[2] = 6 * (ConfUnit \div 10)


-----------------------------------------------------------------------------
(* Claims checked under SpecFallback *)

\* The marks supplied to the estimator (numbers greater than zero).
SuppliedMarks(student_data) ==
    SelectSeq(student_data.marks, LAMBDA mark : mark > 0)

\* C13: get_fallback_prediction returns, when at least one internal mark is
\* supplied, the average of the supplied marks scaled from a 0-50 basis to 0-100
\* and clamped to [35, 85] (reported to one decimal) with confidence 0.5; when
\* none is supplied, 65.0 with confidence 0.3; when the computation fails (a mark
\* that is no number), 60.0 with confidence 0.2.  Every result carries
\* prediction_method 'fallback' or 'emergency_fallback' and a warning.
C13_FallbackTiers ==
    ret.op = "get_fallback_prediction" =>
        LET d == arg.items[1]
            r == ret.results[1]
            supplied == SuppliedMarks(d)
            n == Len(supplied)
            total == SumSeq(supplied)
        IN  /\ r.warning
            /\ r.prediction_method \in {"fallback", "emergency_fallback"}
            /\ IF \E i \in 1..3 : d.marks[i] = NonNumeric
               THEN /\ r.predicted_marks = 6000
                    /\ r.confidence_score = 20
                    /\ r.prediction_method = "emergency_fallback"
               ELSE IF n > 0
               THEN /\ r.confidence_score = 50
                    /\ r.prediction_method = "fallback"
                    /\ r.predicted_marks >= 3500
                    /\ r.predicted_marks <= 8500
                    \* 2 * total / n percent, within half a tenth
                    /\ (2 * total >= 35 * n /\ 2 * total <= 85 * n) =>
                          /\ 2 * (r.predicted_marks * n - 200 * total) <= 10 * n
                          /\ 2 * (200 * total - r.predicted_marks * n) <= 10 * n
                    /\ 2 * total < 35 * n => r.predicted_marks = 3500
                    /\ 2 * total > 85 * n => r.predicted_marks = 8500
               ELSE /\ r.predicted_marks = 6500
                    /\ r.confidence_score = 30
                    /\ r.prediction_method = "fallback"

\* Marks 40, 45 and 42 out of 50 average 84.67 percent, reported as 84.7.
C13_Witness ==
    /\ ret.op = "get_fallback_prediction"
    /\ arg.items[1] = FallbackData(40, 45, 42)
    /\ ret.results[1].predicted_marks = 8470
    /\ ret.results[1].confidence_score = 50


-----------------------------------------------------------------------------
(* Claims checked under SpecRetry *)

RetryDone == frame.pc \in {"returned", "raised"}

\* The wrapped function was invoked at most max_retries + 1 times; no
\* invocation followed a successful one; a returned result is the result of
\* the successful invocation; RETRY_EXHAUSTED is raised exactly after
\* max_retries + 1 failures and carries the message of the last of them.
RetrySafe ==
    LET n == Len(frame.log)
    IN  /\ n <= Max(0, frame.max_retries + 1)
        /\ \A i \in 1..(n - 1) : frame.log[i].raises
        /\ frame.pc = "returned" =>
              /\ n >= 1
              /\ ~frame.log[n].raises
              /\ frame.result = frame.log[n].value
        /\ frame.pc = "raised" =>
              /\ n = Max(0, frame.max_retries + 1)
              /\ \A i \in 1..n : frame.log[i].raises
              /\ frame.error_code = "RETRY_EXHAUSTED"
              /\ n >= 1 => frame.last_error = frame.log[n].value
        /\ (n >= 1 /\ ~frame.log[n].raises) => frame.pc = "returned"

\* C14: a function wrapped by retry_with_backoff with max_retries = N is invoked
\* at most N + 1 times and the wrapper always terminates: it returns the result
\* of the first successful invocation without invoking the function again, and
\* if all N + 1 invocations fail it raises an MLServiceError with code
\* RETRY_EXHAUSTED whose details carry the message of the last failure.
C14_RetryBoundedAndTerminates == []RetrySafe /\ <>RetryDone

\* The default max_retries = 3: three failures, then success at the fourth
\* invocation; and four failures.
C14_Witness ==
    /\ frame.max_retries = 3
    /\ Len(frame.log) = 4
    /\ frame.pc = "raised"
    /\ frame.last_error = "Always fails"
    /\ frame.log[3].value = "Temporary failure"


-----------------------------------------------------------------------------
(* Claims checked under SpecDegrade *)

PrimaryRaised ==
    Len(frame.primary_log) = 1 /\ frame.primary_log[1].outcome.raises

\* C15: graceful_degradation follows ATTEMPT_PRIMARY -> DONE | ATTEMPT_FALLBACK
\* -> DONE_DEGRADED | FAIL_REPORTED.  The fallback callable is invoked exactly
\* when the primary raised, each callable is invoked at most once (with the
\* caller's arguments), a primary success returns the primary's result, and if
\* both fail a PredictionError is raised whose details contain the message of
\* the primary failure and that of the fallback failure.
C15_DegradationStateMachine ==
    /\ Len(frame.primary_log) <= 1
    /\ Len(frame.fallback_log) <= 1
    /\ \A i \in 1..Len(frame.primary_log) : frame.primary_log[i].args = frame.args
    /\ \A i \in 1..Len(frame.fallback_log) : frame.fallback_log[i].args = frame.args
    /\ CASE frame.pc = "attempt_primary" ->
              frame.primary_log = <<>> /\ frame.fallback_log = <<>>
         [] frame.pc = "done" ->
              /\ Len(frame.primary_log) = 1
              /\ ~PrimaryRaised
              /\ frame.fallback_log = <<>>
              /\ frame.result = frame.primary_log[1].outcome.value
              /\ frame.raised = "-"
         [] frame.pc = "attempt_fallback" ->
              PrimaryRaised /\ frame.fallback_log = <<>>
         [] frame.pc = "done_degraded" ->
              /\ PrimaryRaised
              /\ Len(frame.fallback_log) = 1
              /\ ~frame.fallback_log[1].outcome.raises
              /\ frame.result = frame.fallback_log[1].outcome.value
              /\ frame.raised = "-"
         [] frame.pc = "fail_reported" ->
              /\ PrimaryRaised
              /\ Len(frame.fallback_log) = 1
              /\ frame.fallback_log[1].outcome.raises
              /\ frame.raised = "PredictionError"
              /\ frame.details.primary_error = frame.primary_log[1].outcome.value
              /\ frame.details.fallback_error = frame.fallback_log[1].outcome.value
         [] OTHER -> FALSE

C15_Witness ==
    /\ frame.pc = "fail_reported"
    /\ frame.details = [primary_error |-> "Primary failed",
                        fallback_error |-> "Fallback failed"]


-----------------------------------------------------------------------------
(* Claims checked under SpecWrapped *)

\* C16 (as claimed): a prediction function wrapped with handle_prediction_errors
\* returns a fallback-tagged prediction instead of raising whenever the wrapped
\* function fails with an unexpected exception (ValueError) or with a ModelError.
C16_FailureAnsweredByFallback ==
    (ret.op = "wrapped"
        /\ arg.items[1].outcome.raises \in {"ValueError", "ModelError"}) =>
        /\ ret.results[1].raises = "-"
        /\ ret.results[1].response.prediction_method
              \in {"fallback", "emergency_fallback"}


-----------------------------------------------------------------------------
(* Further claims checked under SpecApi *)

\* The request has no body, lacks student_id or subject_id, or gives an id
\* that is no integer.
CallerInputError(data) ==
    \/ ~data.has_body
    \/ data.student_id \in {Absent, NonNumeric}
    \/ data.subject_id \in {Absent, NonNumeric}

\* C17 (as claimed): POST /predict answers every caller-input error with HTTP
\* 400 and success = false, and never with a predicted_marks payload.
C17_InputErrorsAnswered400 ==
    (arg.op = "predict_marks" /\ services_up /\ CallerInputError(arg.data)) =>
        /\ response.status = 400
        /\ response.kind = "error"
        /\ ~response.body.success
        /\ response.body.predicted_marks = Absent


\* /predict reached the predictor, the prediction succeeded and save_prediction
\* raised.
SaveFailedAfterPrediction ==
    /\ arg.op = "predict_marks"
    /\ Len(ret.results) = 1
    /\ ret.results[1].success
    /\ arg.faults[1] # "none"

\* /predict/batch reached the save loop.
BatchAnswered == arg.op = "batch_predict" /\ ret.results # <<>>

\* C18: a persistence failure never fails a prediction.  If save_prediction
\* raises after a successful prediction, POST /predict still returns that
\* prediction with success = true and HTTP 200, annotated with a save warning;
\* in POST /predict/batch a save failure for one student neither aborts the
\* batch nor changes the success flag or the values of any prediction.
C18_SaveFailureKeepsPrediction ==
    /\ SaveFailedAfterPrediction =>
          /\ response.status = 200
          /\ response.body = ret.results[1]
          /\ response.body.success
          /\ response.save_warning
    /\ BatchAnswered =>
          /\ response.status = 200
          /\ Len(response.predictions) = Len(arg.items)
          /\ \A i \in 1..Len(response.predictions) :
                /\ response.predictions[i].result = ret.results[i]
                /\ (ret.results[i].success /\ arg.faults[i] # "none") =>
                      response.predictions[i].save_error

\* A batch of two whose first save failed and whose second was stored.
C18_Witness ==
    /\ BatchAnswered
    /\ Len(arg.items) = 2
    /\ arg.faults = <<"write", "none">>
    /\ response.predictions[1].result.success
    /\ response.predictions[1].save_error
    /\ response.predictions[2].prediction_id # Absent
    /\ Len(rows) = 1


-----------------------------------------------------------------------------
(* Claims checked under SpecToggle *)

\* Row i is shown to or hidden from students by the step.
VisibilityChanged(i) ==
    /\ i <= Len(rows')
    /\ rows'[i].id = rows[i].id
    /\ rows'[i].is_visible_to_student # rows[i].is_visible_to_student

\* C19 (as claimed): a toggle request changes is_visible_to_student only for
\* predictions of the given subject and only when the caller is a faculty member
\* assigned to the subject; a request on behalf of an unassigned faculty member
\* is answered with 403 and changes no row, and no request lets a caller without
\* an assignment change a subject's visibility.
C19_OnlyAssignedFacultyToggles ==
    [][\A i \in 1..Len(rows) :
          VisibilityChanged(i) =>
              /\ rows[i].subject_id = arg'.subject_id
              /\ <<arg'.toggle.faculty_id, arg'.subject_id>> \in FacultySubjects]_vars


-----------------------------------------------------------------------------
(* SpecConcurrent: request threads of the Flask app inside                  *)
(* predict_university_marks while one thread trains, all on the one         *)
(* PredictionService object.  A step is one access to self.models: the      *)
(* interpreter runs one thread at a time, so a dict lookup, a dict store    *)
(* and the start and the end of an iteration over the dict are each atomic. *)

\* No object: what dict.get returns for a key the registry does not have.
NoModel == [predicts |-> FALSE, gen |-> Absent]

\* The estimator object before fit has run on it.
UnfittedModel == [predicts |-> FALSE, gen |-> 1]

\* model.fit(X_train, y_train) at line 583: the fitted estimator, a local of
\* the training thread until line 622 stores it.
FittedModel == Regressor(1)

\* self.models.get(key)
GetModel(m, key) == IF HasKey(m, key) THEN ModelAt(m, key) ELSE NoModel

IdleReader ==
    [pc |-> "idle", subject_id |-> Absent, seen |-> 0, model_key |-> "-",
     model |-> NoModel, previous |-> NoModel, during |-> FALSE,
     out |-> [raises |-> FALSE, value |-> 0], result |-> Failure("-")]

IdleTrainer ==
    [pc |-> "none", op |-> "-", subject_id |-> Absent, previous |-> NoModel,
     model |-> NoModel]

\* The model directories the threads are started on.
ConcurrentDisks ==
    {d \in Disks :
        /\ d[BestFile] = NoFile
        /\ d[ProductionFile("production_xgb")] = NoFile
        /\ d[ModelFile("general", "2.0.0")] = NoFile
        /\ d[ProductionFile("production_rf")] # NoFile =>
               d[ModelFile("subject_1", "2.0.0")] = Bare(0)}

\* The subjects the requests of the threads name.
ReaderSubjects == SubjectIds \ {0}

\* model.predict of a request: a value, or an exception.
ConcurrentOutputs == {out \in ModelOutputs : out.value \in {0, 72456}}

\* The training run is between its start and its return.
TrainingInProgress == frame.pc \in {"split", "fit", "fitted"}

InitConcurrent ==
    /\ disk \in ConcurrentDisks
    /\ \E st \in Construct(disk) :
           /\ models = st.models
           /\ model_version = st.model_version
           /\ feature_columns = st.feature_columns
    /\ arg = NoArg
    /\ ret = NoRet
    /\ response = NoResponse
    /\ services_up = TRUE
    /\ rows = <<>>
    /\ committed = <<>>
    /\ nextId = 1
    /\ threads = [t \in Threads |-> IdleReader]
    /\ frame = IdleTrainer

\* The threads of this specification touch the registry and their own locals.
RestUnchanged ==
    UNCHANGED <<disk, model_version, feature_columns, arg, ret, response,
                services_up, rows, committed, nextId>>

\* The reader's exception is caught at line 298 and the failure dict returned.
ReaderFails(t, error) ==
    threads' = [threads EXCEPT ![t].pc = "done", ![t].result = Failure(error)]

\* Line 247: 'production_best' in self.models; otherwise line 250 starts to
\* iterate self.models.keys(), and the iterator remembers the dict's size.
ReaderBegins(t, subject_id) ==
    /\ threads[t].pc = "idle"
    /\ threads' =
           [threads EXCEPT ![t] =
               [IdleReader EXCEPT
                   !.subject_id = subject_id,
                   !.previous = GetModel(models, SubjectKey(subject_id)),
                   !.during = TrainingInProgress,
                   !.pc = IF HasKey(models, "production_best")
                          THEN "predict" ELSE "any",
                   !.seen = Len(models),
                   !.model_key = IF HasKey(models, "production_best")
                                 THEN "production_best" ELSE "-",
                   !.model = GetModel(models, "production_best")]]
    /\ UNCHANGED <<models, frame>>
    /\ RestUnchanged

\* Line 250, the iterator's last step: RuntimeError if the dict changed size
\* since the iteration began.  With a production key the list of line 252 is
\* begun; without one line 258 reads the subject's (or the general) entry.
ReaderScans(t) ==
    /\ threads[t].pc = "any"
    /\ IF Len(models) # threads[t].seen
       THEN ReaderFails(t, "dictionary changed size during iteration")
       ELSE IF \E k \in Keys(models) : IsProductionKey(k)
       THEN threads' = [threads EXCEPT ![t].pc = "keys", ![t].seen = Len(models)]
       ELSE LET subject_key == SubjectKey(threads[t].subject_id)
            IN  threads' =
                    [threads EXCEPT
                        ![t].pc = IF HasKey(models, subject_key)
                                  THEN "predict" ELSE "load",
                        ![t].model_key = subject_key,
                        ![t].model = GetModel(models, subject_key)]
    /\ UNCHANGED <<models, frame>>
    /\ RestUnchanged

\* Lines 252-254: the end of the list comprehension and production_keys[0].
ReaderListsKeys(t) ==
    /\ threads[t].pc = "keys"
    /\ IF Len(models) # threads[t].seen
       THEN ReaderFails(t, "dictionary changed size during iteration")
       ELSE threads' =
                [threads EXCEPT ![t].pc = "predict",
                                ![t].model_key = FirstProductionKey(models),
                                ![t].model = ModelAt(models, FirstProductionKey(models))]
    /\ UNCHANGED <<models, frame>>
    /\ RestUnchanged

\* Lines 260-270: the entry was missing at line 258; the file is looked for,
\* loaded and stored under the key, whatever the registry holds by now.
ReaderLoads(t) ==
    /\ threads[t].pc = "load"
    /\ LET subject_key == threads[t].model_key
           file == ModelFile(subject_key, model_version)
       IN  IF ~(file \in AllFiles /\ Exists(disk, file))
           THEN ReaderFails(t, NoModelFound) /\ UNCHANGED models
           ELSE IF disk[file].shape = "corrupt"
           THEN ReaderFails(t, "joblib.load failed") /\ UNCHANGED models
           ELSE /\ models' = Put(models, subject_key, ObjectOf(disk[file]))
                /\ threads' = [threads EXCEPT ![t].pc = "predict",
                                              ![t].model = ObjectOf(disk[file])]
    /\ UNCHANGED frame
    /\ RestUnchanged

\* Lines 273-297 on the object the thread holds.
ReaderPredicts(t, out) ==
    /\ threads[t].pc = "predict"
    /\ threads' =
           [threads EXCEPT
               ![t].pc = "done",
               ![t].out = out,
               ![t].result = PredictWithModel(threads[t].model, threads[t].model_key,
                                              model_version, feature_columns,
                                              Complete, out)]
    /\ UNCHANGED <<models, frame>>
    /\ RestUnchanged

\* POST /train calls train_model(training_data, subject_id) at app.py line 128;
\* train_subject_model(data, subject_id) is the other training entry.
TrainerStarts(op, subject_id) ==
    /\ frame.pc = "none"
    /\ op = "train_subject_model" => subject_id # 0
    /\ frame' = [IdleTrainer EXCEPT
                    !.pc = IF op = "train_model" THEN "split" ELSE "fit",
                    !.op = op,
                    !.subject_id = subject_id,
                    !.previous = GetModel(models, SubjectKey(subject_id)),
                    !.model = UnfittedModel]
    /\ UNCHANGED <<models, threads>>
    /\ RestUnchanged

\* The train_model in force (line 560) is handed the route's arguments: it
\* raises before it fits anything, and the registry is as it was.
TrainerCallsTrainModel(marks_data) ==
    /\ frame.pc = "split"
    /\ \E r \in {TrainModel(models, disk, model_version, marks_data, frame.subject_id)} :
           /\ frame' = [frame EXCEPT !.pc = IF r.raised THEN "raised" ELSE "returned"]
           /\ models' = r.models
    /\ UNCHANGED threads
    /\ RestUnchanged

\* Lines 611-619: preprocessing, feature engineering and the fit, all on
\* locals of the training thread; any of them may raise.
TrainerFits(raises) ==
    /\ frame.pc = "fit"
    /\ frame' = IF raises THEN [frame EXCEPT !.pc = "raised"]
                ELSE [frame EXCEPT !.pc = "fitted", !.model = FittedModel]
    /\ UNCHANGED <<models, threads>>
    /\ RestUnchanged

\* Line 622: self.models[f'subject_{subject_id}'] = model
TrainerRegisters ==
    /\ frame.pc = "fitted"
    /\ models' = Put(models, SubjectName(frame.subject_id), frame.model)
    /\ frame' = [frame EXCEPT !.pc = "returned"]
    /\ UNCHANGED threads
    /\ RestUnchanged

ReaderStep(t) ==
    \/ \E subject_id \in ReaderSubjects : ReaderBegins(t, subject_id)
    \/ ReaderScans(t)
    \/ ReaderListsKeys(t)
    \/ ReaderLoads(t)
    \/ \E out \in ConcurrentOutputs : ReaderPredicts(t, out)

NextConcurrent ==
    \/ \E t \in Threads, subject_id \in ReaderSubjects : ReaderBegins(t, subject_id)
    \/ \E t \in Threads : ReaderScans(t)
    \/ \E t \in Threads : ReaderListsKeys(t)
    \/ \E t \in Threads : ReaderLoads(t)
    \/ \E t \in Threads, out \in ConcurrentOutputs : ReaderPredicts(t, out)
    \/ \E op \in {"train_model", "train_subject_model"}, subject_id \in SubjectIds :
           TrainerStarts(op, subject_id)
    \/ \E marks_data \in Corpora : TrainerCallsTrainModel(marks_data)
    \/ \E raises \in BOOLEAN : TrainerFits(raises)
    \/ TrainerRegisters

SpecConcurrent == InitConcurrent /\ [][NextConcurrent]_vars


-----------------------------------------------------------------------------
(* Claims checked under SpecConcurrent *)

\* The key the training run registers its model under.
TrainingKey ==
    IF frame.op = "train_subject_model" THEN SubjectName(frame.subject_id)
    ELSE SubjectKey(frame.subject_id)

\* Thread t has answered a request that the resolution order of lines 247-258
\* sends to the key in training.
AnsweredForTrainingKey(t) ==
    /\ threads[t].pc = "done"
    /\ ~\E k \in Keys(models) : IsProductionKey(k)
    /\ SubjectKey(threads[t].subject_id) = TrainingKey

\* C20: from the start of a training run for a key that holds a registered
\* model, the registry holds under that key the previous model or the fitted
\* new one and nothing else; every prediction that resolves to the key is
\* computed by one of the two and succeeds whenever the model's own predict
\* does; and no step of a predicting thread waits for the training thread.
C20_PredictionsSurviveTraining ==
    (frame.pc # "none" /\ frame.previous # NoModel) =>
        /\ frame.previous.predicts
        /\ GetModel(models, TrainingKey) \in {frame.previous, FittedModel}
        /\ \A t \in Threads :
              AnsweredForTrainingKey(t) =>
                  /\ threads[t].model_key = TrainingKey
                  /\ threads[t].model \in {frame.previous, FittedModel}
                  /\ threads[t].result.success = ~threads[t].out.raises
        /\ \A t \in Threads : threads[t].pc # "done" => ENABLED ReaderStep(t)

\* Two requests that began while the model of their key was being trained: one
\* was answered by the previous model, the other by the new one.
C20_Witness ==
    /\ frame.op = "train_subject_model"
    /\ frame.previous # NoModel
    /\ frame.pc = "returned"
    /\ \E t, u \in Threads :
          /\ AnsweredForTrainingKey(t) /\ AnsweredForTrainingKey(u)
          /\ threads[t].during /\ threads[u].during
          /\ threads[t].result.success /\ threads[u].result.success
          /\ threads[t].model = frame.previous
          /\ threads[u].model = FittedModel


-----------------------------------------------------------------------------
(* Claims about training and the model directory, checked under Spec *)

\* The last call was train_model on a corpus that is large enough and fits.
TrainedOnSufficientCorpus ==
    /\ ret.op = "train"
    /\ arg.marks_data.qualifying >= 10
    /\ ~arg.marks_data.fit_raises

\* C21 (as claimed): a trained model persists across restarts.  After
\* train_model(marks_data, subject_id) on a sufficient corpus the call has
\* succeeded, the model is registered under subject_<id> (or general), its file
\* is in the model directory, and a PredictionService constructed on the same
\* directory lists the key among its loaded models.
C21_TrainedModelPersists ==
    TrainedOnSufficientCorpus =>
        LET model_key == SubjectKey(arg.subject_id)
        IN  /\ ~ret.raised
            /\ LastResult.success
            /\ HasKey(models, model_key)
            /\ Exists(disk, ModelFile(model_key, model_version))
            /\ \A st \in Construct(disk) : HasKey(st.models, model_key)

\* An artifact of the expected package shape: a dict with the regressor, its
\* feature columns and its version.
WellFormed(content) ==
    /\ content.shape = "package"
    /\ content.model_version # "-"
    /\ content.feature_columns # <<>>

\* C22 (as claimed): at start-up an artifact that does not have the expected
\* package shape is rejected and never registered, neither under
\* production_best nor under the key of a <key>_model_<version>.joblib file.
C22_MalformedNeverRegistered ==
    arg = NoArg =>
        /\ ~WellFormed(disk[BestFile]) => ~HasKey(models, "production_best")
        /\ \A k \in RegularKeySet :
              ~WellFormed(disk[ModelFile(k, model_version)]) => ~HasKey(models, k)

\* C23 (as claimed): artifacts are immutable.  A training run on a sufficient
\* corpus stores a new artifact, and every artifact that was in the model
\* directory before the run is there afterwards with the same content.
C23_ArtifactsImmutable ==
    [][(arg'.op = "train" /\ arg'.marks_data.qualifying >= 10
                          /\ ~arg'.marks_data.fit_raises) =>
          /\ \E f \in AllFiles : ~Exists(disk, f) /\ Exists(disk', f)
          /\ \A f \in AllFiles : Exists(disk, f) => disk'[f] = disk[f]]_vars


-----------------------------------------------------------------------------
(* SpecPrepare: PredictionService.prepare_training_data applied to one      *)
(* corpus of mark records; arg.items holds the corpus, ret.results the      *)
(* outcome of the call.                                                     *)

ExamTypes == Exams \o <<"university">>

\* A mark record as get_training_data returns it.
Mark(student_id, exam_type, marks_obtained) ==
    [student_id |-> student_id, subject_id |-> 1, exam_type |-> exam_type,
     marks_obtained |-> marks_obtained, max_marks |-> 50,
     subject_type |-> IF student_id = 1 THEN "lab" ELSE "theory",
     semester |-> 3]

\* (mark['marks_obtained'] / mark['max_marks']) * 100
Percentage(mark) == (mark.marks_obtained * 100) \div mark.max_marks

\* One group as the loop of lines 62-74 leaves it.
NewGroup(mark) ==
    [student_id |-> mark.student_id, subject_id |-> mark.subject_id,
     subject_type |-> mark.subject_type, semester |-> mark.semester,
     marks |-> [e \in {ExamTypes[i] : i \in 1..4} |-> Absent]]

\* Lines 62-74: the records grouped by (student_id, subject_id), in the order
\* in which the groups first appear; a later record of the same exam replaces
\* the earlier percentage.
RECURSIVE GroupMarks(_, _)
GroupMarks(marks_data, groups) ==
    IF marks_data = <<>> THEN groups
    ELSE LET mark == Head(marks_data)
             same(g) == g.student_id = mark.student_id /\ g.subject_id = mark.subject_id
             known == IF \E i \in 1..Len(groups) : same(groups[i])
                      THEN groups ELSE Append(groups, NewGroup(mark))
         IN  GroupMarks(Tail(marks_data),
                 [i \in 1..Len(known) |->
                     IF same(known[i])
                     THEN [known[i] EXCEPT !.marks[mark.exam_type] = Percentage(mark)]
                     ELSE known[i]])

\* A group is taken when it has at least one internal mark.
QualifiesWithOneInternal(marks) ==
    /\ marks["university"] # Absent
    /\ Len(SelectSeq(Exams, LAMBDA e : marks[e] # Absent)) >= 1

\* Lines 80-85: 'university' in marks and internal_count >= 2
Qualifies(marks) ==
    /\ marks["university"] # Absent
    /\ Len(SelectSeq(Exams, LAMBDA e : marks[e] # Absent)) >= 2

\* Lines 86-106: the record of a qualifying group.  The four internal
\* percentages are in 1/MarkUnit percent, as in PrepareFeatures.
TrainingRecord(group) ==
    LET marks == group.marks
        internal_marks == [i \in 1..3 |-> Get(marks[Exams[i]], 0) * MarkUnit]
        available_internals == SelectSeq(internal_marks, LAMBDA v : v > 0)
        avg_internal ==
            IF available_internals # <<>> THEN Mean(available_internals) ELSE 0
        filled(e) == IF marks[e] = Absent THEN avg_internal ELSE marks[e] * MarkUnit
        series_1 == filled("series_test_1")
        series_2 == filled("series_test_2")
        lab_internal == filled("lab_internal")
    IN  [student_id |-> group.student_id,
         subject_id |-> group.subject_id,
         series_test_1_percentage |-> series_1,
         series_test_2_percentage |-> series_2,
         lab_internal_percentage |-> lab_internal,
         average_internal_percentage |-> Mean(<<series_1, series_2, lab_internal>>),
         subject_type_encoded |-> IF group.subject_type = "lab" THEN 1 ELSE 0,
         semester |-> group.semester,
         university_percentage |-> marks["university"]]

\* training_records after the loop of lines 77-107
TrainingRecords(marks_data) ==
    LET groups == GroupMarks(marks_data, <<>>)
        taken == SelectSeq(groups, LAMBDA g : Qualifies(g.marks))
    IN  [i \in 1..Len(taken) |-> TrainingRecord(taken[i])]

\* The columns of pd.DataFrame(training_records): the keys of a record.
RecordColumns ==
    {"student_id", "subject_id", "series_test_1_percentage",
     "series_test_2_percentage", "lab_internal_percentage",
     "average_internal_percentage", "subject_type_encoded", "semester",
     "university_percentage"}

NoTrainingData ==
    "No valid training data found. Need students with university marks and internal assessments."

\* The whole call.  df[self.feature_columns] raises KeyError when a name in
\* feature_columns is not a column of the frame.
\* [raised, error, training_records, columns, X, y]
PrepareTrainingData(marks_data, fc) ==
    LET training_records == TrainingRecords(marks_data)
        raise(error) ==
            [raised |-> TRUE, error |-> error, training_records |-> training_records,
             columns |-> <<>>, X |-> <<>>, y |-> <<>>]
    IN  IF training_records = <<>> THEN raise(NoTrainingData)
        ELSE IF \E i \in 1..Len(fc) : fc[i] \notin RecordColumns
        THEN raise("KeyError: not in index")
        ELSE [raised |-> FALSE, error |-> "-",
              training_records |-> training_records,
              columns |-> fc,
              X |-> [i \in 1..Len(training_records) |->
                        [j \in 1..Len(fc) |-> training_records[i][fc[j]]]],
              y |-> [i \in 1..Len(training_records) |->
                        training_records[i].university_percentage]]

\* The marks of one student: every internal exam missing, 0 of 50 or 30 of 50,
\* the university exam missing or 35 of 50.
GroupInputs ==
    {m \in [{ExamTypes[i] : i \in 1..4} -> {Absent, 0, 30, 35}] :
        /\ m["university"] \in {Absent, 35}
        /\ \A e \in ExamSet : m[e] # 35}

\* The mark records of a student, one per exam taken.
MarksOfStudent(student_id, m) ==
    LET taken == SelectSeq(ExamTypes, LAMBDA e : m[e] # Absent)
    IN  [i \in 1..Len(taken) |-> Mark(student_id, taken[i], m[taken[i]])]

RECURSIVE CorporaOf(_)
CorporaOf(n) ==
    IF n = 0 THEN {<<>>}
    ELSE {c \o MarksOfStudent(n, m) : c \in CorporaOf(n - 1), m \in GroupInputs}

\* The corpora: the records of MaxGroups students, and one corpus in which the
\* records of two students alternate and an exam is recorded twice.
TrainingCorpora ==
    CorporaOf(MaxGroups) \cup
    {<<Mark(1, "series_test_1", 30), Mark(2, "university", 35),
       Mark(1, "university", 35), Mark(2, "lab_internal", 30),
       Mark(1, "series_test_1", 0), Mark(1, "lab_internal", 30)>>}

InitPrepare ==
    /\ disk \in ColumnDisks
    /\ \E st \in Construct(disk) :
           /\ models = st.models
           /\ model_version = st.model_version
           /\ feature_columns = st.feature_columns
    /\ \E marks_data \in TrainingCorpora : arg = [NoArg EXCEPT !.items = marks_data]
    /\ ret = NoRet
    /\ response = NoResponse
    /\ services_up = TRUE
    /\ DbIdle
    /\ frame = [pc |-> "none", result |-> PrepareTrainingData(<<>>, <<>>)]

PrepareTrainingDataCall ==
    /\ ret.op = "none"
    /\ \E r \in {PrepareTrainingData(arg.items, feature_columns)} :
           /\ ret' = [op |-> "prepare_training_data", raised |-> r.raised,
                      results |-> r.X, raws |-> r.y]
           /\ frame' = [pc |-> "returned", result |-> r]
    /\ UNCHANGED <<arg, response, services_up>>
    /\ UNCHANGED serviceVars
    /\ UNCHANGED dbVars

NextPrepare == PrepareTrainingDataCall

SpecPrepare == InitPrepare /\ [][NextPrepare]_vars


-----------------------------------------------------------------------------
(* Claims checked under SpecPrepare *)

\* The (student, subject) groups of the corpus, by student id.
GroupStudents == {arg.items[i].student_id : i \in 1..Len(arg.items)}

\* Exam e of the student is in the corpus.
HasMark(student_id, e) ==
    \E i \in 1..Len(arg.items) :
        arg.items[i].student_id = student_id /\ arg.items[i].exam_type = e

\* The student has a university mark and at least two of the internal marks.
QualifyingGroup(student_id) ==
    /\ HasMark(student_id, "university")
    /\ Cardinality({e \in ExamSet : HasMark(student_id, e)}) >= 2

Prepared == ret.op = "prepare_training_data"

\* C24 (as claimed): for a corpus with at least one qualifying group,
\* prepare_training_data returns a feature table whose columns are the
\* service's feature_columns, in their order, with one row per qualifying
\* group, and a target series of the same length.
C24_TableHasFeatureColumns ==
    (Prepared /\ \E g \in GroupStudents : QualifyingGroup(g)) =>
        /\ ~ret.raised
        /\ frame.result.columns = feature_columns
        /\ Len(ret.results) = Cardinality({g \in GroupStudents : QualifyingGroup(g)})
        /\ \A i \in 1..Len(ret.results) : Len(ret.results[i]) = Len(feature_columns)
        /\ Len(ret.raws) = Len(ret.results)

StudentOfGroup(group) ==
    Student(group.student_id, group.subject_id,
            [e \in ExamSet |-> group.marks[e]], group.subject_type,
            group.semester, Absent)

\* C30 (as claimed): for every qualifying group the three internal
\* percentages and their average in the training record equal the first four
\* features _prepare_prediction_features computes from the same marks.
C30_TrainingMatchesPrediction ==
    Prepared =>
        LET groups == GroupMarks(arg.items, <<>>)
            records == frame.result.training_records
        IN  \A i \in 1..Len(records) :
                \A k \in 1..Len(groups) :
                    groups[k].student_id = records[i].student_id =>
                        SubSeq(PrepareFeatures(StudentOfGroup(groups[k]),
                                               feature_columns), 1, 4)
                            = <<records[i].series_test_1_percentage,
                                records[i].series_test_2_percentage,
                                records[i].lab_internal_percentage,
                                records[i].average_internal_percentage>>


-----------------------------------------------------------------------------
(* SpecTrain: POST /train requests on the Flask app, one after another.    *)
(* frame holds what the training run fitted and reported.                  *)

\* models_to_try of the first train_model (lines 145-162), in dict order.
CandidatesFirst == <<"random_forest", "xgboost">>

\* The one estimator of the second train_model (line 582).
CandidatesSecond == <<"random_forest">>

\* The test-split MAE of each candidate, as the evaluation finds it.
CandidateMaes == {<<a, b>> : a \in 1..2, b \in 1..2}

\* Lines 164-190: best_score starts at infinity and a candidate replaces the
\* best only `if mae < best_score`; the index of the candidate kept.
RECURSIVE SelectBestFrom(_, _, _)
SelectBestFrom(maes, i, best) ==
    IF i > Len(maes) THEN best
    ELSE SelectBestFrom(maes, i + 1,
                        IF best = 0 \/ maes[i] < maes[best] THEN i ELSE best)

SelectBest(maes) == SelectBestFrom(maes, 1, 0)

NoReport == [fitted |-> <<>>, best_model |-> "-", all_models_performance |-> <<>>]

\* What a run of the first definition fits and reports (lines 164-217).
TrainingReportFirst(maes) ==
    [fitted |-> CandidatesFirst,
     best_model |-> CandidatesFirst[SelectBest(maes)],
     all_models_performance |-> maes]

\* The second definition, handed (training_data, subject_id) as (X, y),
\* raises before its estimator is fitted and reports nothing.
TrainingReportSecond(maes) == NoReport

\* The report of the train_model in force.
TrainingReport(maes) == TrainingReportSecond(maes)

\* database_service.get_training_data: it raises, or returns the corpus
\* (empty when qualifying = 0 and nothing was recorded for the subject).
TrainingLookups ==
    {[raises |-> TRUE, empty |-> FALSE, marks_data |-> CHOOSE c \in Corpora : c.qualifying = 0],
     [raises |-> FALSE, empty |-> TRUE, marks_data |-> CHOOSE c \in Corpora : c.qualifying = 0]}
        \cup {[raises |-> FALSE, empty |-> FALSE, marks_data |-> c] : c \in Corpora}

TrainError(status, error) ==
    [NoResponse EXCEPT !.status = status, !.kind = "error", !.body = Failure(error)]

\* The view train_model of app.py (lines 104-137).
\* [response, called, raised, result, report, models, disk]
TrainView(up, m, d, version, subject_id, lookup, maes) ==
    LET same(r) == [response |-> r, called |-> FALSE, raised |-> FALSE,
                    result |-> Failure("-"), report |-> NoReport,
                    models |-> m, disk |-> d]
    IN  IF ~up THEN same(TrainError(503, "Services not available"))
        ELSE IF lookup.raises THEN same(TrainError(500, "get_training_data raised"))
        ELSE IF lookup.empty THEN same(TrainError(400, "No training data available"))
        ELSE LET r == TrainModel(m, d, version, lookup.marks_data, subject_id)
             IN  [response |->
                      IF r.raised THEN TrainError(500, "train_model raised")
                      ELSE [NoResponse EXCEPT
                               !.status = IF r.result.success THEN 200 ELSE 400,
                               !.kind = "training", !.body = r.result],
                  called |-> TRUE,
                  raised |-> r.raised,
                  result |-> r.result,
                  report |-> IF ~r.raised /\ r.result.success
                             THEN TrainingReport(maes) ELSE NoReport,
                  models |-> r.models,
                  disk |-> r.disk]

InitTrain ==
    /\ disk \in Disks
    /\ \E st \in Construct(disk) :
           /\ models = st.models
           /\ model_version = st.model_version
           /\ feature_columns = st.feature_columns
    /\ arg = NoArg
    /\ ret = NoRet
    /\ response = NoResponse
    /\ services_up = TRUE
    /\ DbIdle
    /\ frame = [pc |-> "none", maes |-> <<>>, report |-> NoReport]

TrainRequest(subject_id, lookup, maes) ==
    \E v \in {TrainView(services_up, models, disk, model_version, subject_id,
                        lookup, maes)} :
        /\ arg' = [NoArg EXCEPT !.op = "train", !.subject_id = subject_id,
                                !.models_before = models,
                                !.marks_data = lookup.marks_data]
        /\ ret' = [op |-> IF v.called THEN "train" ELSE "none",
                   raised |-> v.raised, results |-> <<v.result>>, raws |-> <<>>]
        /\ frame' = [pc |-> "answered", maes |-> maes, report |-> v.report]
        /\ response' = v.response
        /\ models' = v.models
        /\ disk' = v.disk
        /\ UNCHANGED <<model_version, feature_columns, services_up>>
        /\ UNCHANGED dbVars

NextTrain ==
    \E subject_id \in SubjectIds, lookup \in TrainingLookups, maes \in CandidateMaes :
        TrainRequest(subject_id, lookup, maes)

SpecTrain == InitTrain /\ [][NextTrain]_vars

-----------------------------------------------------------------------------
(* Claims checked under SpecTrain *)

\* The request reached train_model with a corpus that is large enough and fits.
RanOnSufficientCorpus ==
    /\ arg.op = "train"
    /\ ret.op = "train"
    /\ arg.marks_data.qualifying >= 10
    /\ ~arg.marks_data.fit_raises

\* C26 (as claimed): a training run through train_model(marks_data,
\* subject_id) fits at least two candidates, keeps as best the one with the
\* lowest test MAE, the first evaluated among equals, registers it, and
\* reports the metrics of every candidate.
C26_BestOfTwoCandidates ==
    RanOnSufficientCorpus =>
        LET report == frame.report
            maes == frame.maes
        IN  /\ ~ret.raised
            /\ Len(report.fitted) >= 2
            /\ Len(report.all_models_performance) = Len(report.fitted)
            /\ \E i \in 1..Len(report.fitted) :
                  /\ report.best_model = report.fitted[i]
                  /\ \A j \in 1..Len(maes) : maes[i] <= maes[j]
                  /\ \A j \in 1..(i - 1) : maes[j] > maes[i]
            /\ HasKey(models, SubjectKey(arg.subject_id))

\* C28: a training request that is answered with success = false leaves the
\* registry and the model directory as they were.
C28_FailedRunChangesNothing ==
    [][(response'.kind \in {"error", "training"} /\ ~response'.body.success) =>
          /\ models' = models
          /\ disk' = disk]_vars

\* A run that reached train_model on a sufficient corpus and was answered with
\* a failure.
C28_Witness ==
    /\ RanOnSufficientCorpus
    /\ ret.raised
    /\ response.status = 500
    /\ ~response.body.success
    /\ models = arg.models_before
    /\ models # <<>>


-----------------------------------------------------------------------------
(* Claims about the registry and the store *)

\* The keys of the registry that begin with 'production_'.
ProductionKeys == {k \in Keys(models) : IsProductionKey(k)}

C29_ReturnedIdIsDurable ==
    \A i \in 1..Len(arg) :
        ~arg[i].raised => \E j \in 1..Len(rows) : rows[j].id = arg[i].id

====
